---- MODULE Spec2Model ----
(***************************************************************************)
(* Document analysis pipeline of the renewable-energy due-diligence API:   *)
(* upload_document / process_document (app/api/endpoints.py), the          *)
(* collaborators it calls (DocumentLoader, ExtractKeyInfo,                 *)
(* DocumentSummarizer, RiskFlagger, ExternalInfoFetcher), the             *)
(* DocumentAnalysis table with its column types, get_analysis, and the     *)
(* polling client poll_status (streamlit_app.py).                          *)
(*                                                                         *)
(* Spec follows one submission from upload to the end of process_document, *)
(* ConcurrentSpec interleaves the submissions of all task ids, ClientSpec  *)
(* adds the client polling for the status of a submission, RulesSpec       *)
(* applies RiskFlagger.analyze_project to a set of facts, ParseSpec        *)
(* applies ProjectInfo.parse_response to a model reply.                    *)
(*                                                                         *)
(* Python values are tagged records ([kind |-> "none"] is None).  Strings  *)
(* are sequences of tokens: concatenation is \o, "; ".join is JoinNotes,   *)
(* substring is Contains.  Values of the extracted fact fields are drawn   *)
(* from a small vocabulary.                                                *)
(***************************************************************************)
EXTENDS Integers, Sequences, FiniteSets, TLC

VARIABLES
  TASKS,        \* endpoints.TASKS: task_id -> status payload
  table,        \* committed rows of document_analysis, row id = index
  files,        \* task ids whose uploaded file exists under UPLOAD_DIR
  pc,           \* per task: position inside upload / process_document
  db_record,    \* per task: the in-memory DocumentAnalysis object (or NoRecord)
  details,      \* per task: processing_error_details
  locals,       \* per task: local variables of process_document (in
                \* RulesSpec: the facts and the outcomes of the calls; in
                \* ParseSpec: the reply and the parsed ProjectInfo)
  trace,        \* per task: what the run has observed so far (history)
  client        \* per task: the local variables of the client's poll_status

vars == <<TASKS, table, files, pc, db_record, details, locals, trace, client>>

-----------------------------------------------------------------------------
(* Bounds *)

\* task ids upload_document hands out (uuid4 in the source)
TaskIds == {"t1", "t2"}

-----------------------------------------------------------------------------
(* Values *)

\* Python values are tagged; a str is a sequence of tokens
None == [kind |-> "none"]
Str(s) == [kind |-> "str", v |-> s]
Bool(b) == [kind |-> "bool", v |-> b]
IntVal(n) == [kind |-> "int", v |-> n]
FloatVal(n) == [kind |-> "float", v |-> n]
List(l) == [kind |-> "list", v |-> l]

\* bool(x) of a Python value
Truthy(x) ==
  CASE x.kind = "none" -> FALSE
    [] x.kind = "str" -> x.v # <<>>
    [] x.kind = "list" -> x.v # <<>>
    [] x.kind = "bool" -> x.v
    [] OTHER -> x.v # 0

\* the contiguous-substring test `sub in s` on token strings
Contains(s, sub) ==
  \E i \in 0..(Len(s) - Len(sub)) :
     \A j \in 1..Len(sub) : s[i + j] = sub[j]

\* "; ".join(lines)
RECURSIVE JoinNotes(_)
JoinNotes(lines) ==
  IF lines = <<>> THEN <<>>
  ELSE IF Len(lines) = 1 THEN lines[1]
  ELSE lines[1] \o <<"; ">> \o JoinNotes(Tail(lines))

\* results of calls that may raise
Return(x) == [raised |-> FALSE, value |-> x]
Raise(msg) == [raised |-> TRUE, err |-> msg]

-----------------------------------------------------------------------------
(* app/tools/extract_key_info.py: ProjectInfo *)

direct_fields ==
  {"project_name", "project_type", "capacity_mw", "location_address",
   "project_area_size", "technology_details", "number_of_units",
   "developer_name", "purchaser_or_offtaker", "seller_or_provider",
   "key_counterparties", "agreement_type", "agreement_effective_date",
   "term_length_years", "contract_price_details",
   "guaranteed_output_or_availability", "liquidated_damages_mention",
   "delivery_point", "environmental_attributes_ownership",
   "lead_regulatory_agency", "assessment_type", "key_permits_mentioned",
   "key_environmental_concerns", "mitigation_mentioned", "key_project_dates"}

ListFields ==
  {"key_counterparties", "key_permits_mentioned",
   "key_environmental_concerns", "key_project_dates"}

\* ProjectInfo(): every Optional field None, every list field []
ProjectInfo ==
  [f \in direct_fields |-> IF f \in ListFields THEN List(<<>>) ELSE None]

\* ProjectInfo(**data) for the fields given in data
With(info, data) ==
  [f \in direct_fields |-> IF f \in DOMAIN data THEN data[f] ELSE info[f]]

-----------------------------------------------------------------------------
(* app/tools/risk_flagger.py: RiskFlagger *)

\* largest integer a numeric token of the vocabulary denotes
MaxLiteral == 600

\* str(x) of a term_length_years value (Union[int, str])
PyStr(x) == IF x.kind = "int" THEN <<ToString(x.v)>> ELSE x.v

\* int(s): the string must be one integer literal, else ValueError
PyInt(s) ==
  IF Len(s) = 1 /\ \E n \in 0..MaxLiteral : ToString(n) = s[1]
  THEN Return(CHOOSE n \in 0..MaxLiteral : ToString(n) = s[1])
  ELSE Raise(<<"invalid literal for int() with base 10: ">> \o s)

_check_ppa_term_length_inclusive(project_info) ==
  IF project_info.term_length_years # None
  THEN LET term_length == PyInt(PyStr(project_info.term_length_years))
       IN  IF term_length.raised THEN term_length
           ELSE IF term_length.value <= 15
                THEN Return(Str(<<"SHORT PPA TERM: PPA term length is ",
                                  ToString(term_length.value),
                                  " years, which is below the typical 15-year threshold">>))
                ELSE Return(None)
  ELSE Return(None)

_check_ppa_term_length(project_info) ==
  IF project_info.term_length_years # None
  THEN LET term_length == PyInt(PyStr(project_info.term_length_years))
       IN  IF term_length.raised THEN term_length
           ELSE IF term_length.value < 15
                THEN Return(Str(<<"SHORT PPA TERM: PPA term length is ",
                                  ToString(term_length.value),
                                  " years, which is below the typical 15-year threshold">>))
                ELSE Return(None)
  ELSE Return(None)

\* str.lower() on the tokens of the vocabulary
LowerToken(tok) ==
  CASE tok = " Acres" -> " acres"
    [] tok = "Seller" -> "seller"
    [] tok = "PPA" -> "ppa"
    [] OTHER -> tok

Lower(s) == [i \in 1..Len(s) |-> LowerToken(s[i])]

\* the characters of a token that are digits or '.'; the other tokens of the
\* vocabulary hold neither
NumericTokens == {ToString(n) : n \in 0..MaxLiteral} \cup {"1.5.2"}

RECURSIVE DigitsOf(_)
DigitsOf(s) ==
  IF s = <<>> THEN ""
  ELSE (IF Head(s) \in NumericTokens THEN Head(s) ELSE "") \o DigitsOf(Tail(s))

\* float(text) of a string of digits and dots
PyFloat(text) ==
  IF \E n \in 0..MaxLiteral : ToString(n) = text
  THEN Return(CHOOSE n \in 0..MaxLiteral : ToString(n) = text)
  ELSE Raise(<<"could not convert string to float: ", text>>)

\* str(x) of a float holding a whole number
FloatStr(n) == ToString(n) \o ".0"

\* capacity / area_value rounded to thousandths, and its f"{density:.3f}"
Density3f(capacity, area_value) == (2000 * capacity + area_value) \div (2 * area_value)

Format3f(thousandths) ==
  LET frac == thousandths % 1000
  IN  ToString(thousandths \div 1000) \o "."
        \o (IF frac < 10 THEN "00" ELSE IF frac < 100 THEN "0" ELSE "") \o ToString(frac)

_check_project_size_inclusive(project_info) ==
  IF project_info.capacity_mw # None
  THEN LET capacity == project_info.capacity_mw.v
           size == IF capacity < 5
                   THEN << <<"SMALL PROJECT: Project capacity is only ", FloatStr(capacity),
                              " MW, which may affect economies of scale and project viability">> >>
                   ELSE IF capacity < 20
                   THEN << <<"MEDIUM-SMALL PROJECT: Project capacity is ", FloatStr(capacity),
                              " MW, which may have higher per-MW costs">> >>
                   ELSE IF capacity >= 500
                   THEN << <<"LARGE PROJECT: Project capacity is ", FloatStr(capacity),
                              " MW, which may have grid integration and interconnection challenges">> >>
                   ELSE <<>>
       IN  IF Truthy(project_info.project_area_size)
           THEN LET area_str == Lower(project_info.project_area_size.v)
                    area_value == PyFloat(DigitsOf(area_str))
                IN  IF area_value.raised
                    THEN Return(size)              \* except ValueError: pass
                    ELSE IF Contains(area_str, <<" acres">>)
                    THEN IF area_value.value = 0
                         THEN Raise(<<"float division by zero">>)
                         ELSE IF 1000 * capacity < 4 * area_value.value
                              THEN Return(size \o << <<"LOW DENSITY: Project density is ",
                                                       Format3f(Density3f(capacity, area_value.value)),
                                                       " MW/acre, which may indicate land use inefficiency">> >>)
                              ELSE Return(size)
                    ELSE Return(size)
           ELSE Return(size)
  ELSE Return(<<>>)

_check_project_size(project_info) ==
  IF project_info.capacity_mw # None
  THEN LET capacity == project_info.capacity_mw.v
           size == IF capacity < 5
                   THEN << <<"SMALL PROJECT: Project capacity is only ", FloatStr(capacity),
                              " MW, which may affect economies of scale and project viability">> >>
                   ELSE IF capacity < 20
                   THEN << <<"MEDIUM-SMALL PROJECT: Project capacity is ", FloatStr(capacity),
                              " MW, which may have higher per-MW costs">> >>
                   ELSE IF capacity > 500
                   THEN << <<"LARGE PROJECT: Project capacity is ", FloatStr(capacity),
                              " MW, which may have grid integration and interconnection challenges">> >>
                   ELSE <<>>
       IN  IF Truthy(project_info.project_area_size)
           THEN LET area_str == Lower(project_info.project_area_size.v)
                    area_value == PyFloat(DigitsOf(area_str))
                IN  IF area_value.raised
                    THEN Return(size)              \* except ValueError: pass
                    ELSE IF Contains(area_str, <<" acres">>)
                    THEN IF area_value.value = 0
                         THEN Raise(<<"float division by zero">>)
                         ELSE IF 1000 * capacity < 4 * area_value.value
                              THEN Return(size \o << <<"LOW DENSITY: Project density is ",
                                                       Format3f(Density3f(capacity, area_value.value)),
                                                       " MW/acre, which may indicate land use inefficiency">> >>)
                              ELSE Return(size)
                    ELSE Return(size)
           ELSE Return(size)
  ELSE Return(<<>>)

critical_fields ==
  << <<"project_name", "Project name">>,
     <<"project_type", "Project type">>,
     <<"capacity_mw", "Project capacity">>,
     <<"location_address", "Project location">>,
     <<"developer_name", "Developer information">>,
     <<"purchaser_or_offtaker", "Offtaker information">>,
     <<"agreement_type", "Agreement type">>,
     <<"term_length_years", "PPA term length">> >>

RECURSIVE MissingFrom(_, _)
MissingFrom(project_info, i) ==
  IF i > Len(critical_fields) THEN <<>>
  ELSE (IF project_info[critical_fields[i][1]] = None
        THEN << <<"MISSING INFO: ", critical_fields[i][2], " is not specified">> >>
        ELSE <<>>) \o MissingFrom(project_info, i + 1)

_check_missing_critical_info(project_info) == MissingFrom(project_info, 1)

_check_environmental_risks_ungated(project_info) ==
  LET concerns == project_info.key_environmental_concerns
  IN  (IF Truthy(concerns)
       THEN [i \in 1..Len(concerns.v) |-> <<"ENVIRONMENTAL CONCERN: ">> \o concerns.v[i]]
       ELSE <<>>)
      \o (IF project_info.mitigation_mentioned = Bool(FALSE)
          THEN << <<"HIGH RISK - NO MITIGATION: Environmental concerns exist but mitigation measures are not mentioned">> >>
          ELSE <<>>)
      \o (IF ~Truthy(project_info.key_permits_mentioned)
          THEN << <<"PERMITTING RISK: No specific permits or approvals are mentioned">> >>
          ELSE <<>>)
      \o (IF ~Truthy(project_info.lead_regulatory_agency)
          THEN << <<"REGULATORY RISK: Lead regulatory agency is not identified">> >>
          ELSE <<>>)

_check_environmental_risks(project_info) ==
  LET concerns == project_info.key_environmental_concerns
  IN  (IF Truthy(concerns)
       THEN [i \in 1..Len(concerns.v) |-> <<"ENVIRONMENTAL CONCERN: ">> \o concerns.v[i]]
            \o (IF project_info.mitigation_mentioned = Bool(FALSE)
                THEN << <<"HIGH RISK - NO MITIGATION: Environmental concerns exist but mitigation measures are not mentioned">> >>
                ELSE <<>>)
       ELSE <<>>)
      \o (IF ~Truthy(project_info.key_permits_mentioned)
          THEN << <<"PERMITTING RISK: No specific permits or approvals are mentioned">> >>
          ELSE <<>>)
      \o (IF ~Truthy(project_info.lead_regulatory_agency)
          THEN << <<"REGULATORY RISK: Lead regulatory agency is not identified">> >>
          ELSE <<>>)

_check_contract_risks_unless_mentioned(project_info) ==
  LET rec == project_info.environmental_attributes_ownership
  IN  (IF ~Truthy(project_info.liquidated_damages_mention)
       THEN << <<"CONTRACT RISK: Liquidated damages provisions are not mentioned, which may affect project's risk allocation">> >>
       ELSE <<>>)
      \o (IF ~Truthy(rec)
          THEN << <<"UNCLEAR REC OWNERSHIP: Environmental attributes (RECs) ownership is not specified">> >>
          ELSE IF Contains(Lower(rec.v), <<"seller">>)
          THEN << <<"REC OWNERSHIP NOTE: Seller retains environmental attributes, which may affect project economics">> >>
          ELSE <<>>)
      \o (IF ~Truthy(project_info.guaranteed_output_or_availability)
          THEN << <<"PERFORMANCE RISK: No guaranteed output or availability metrics specified">> >>
          ELSE <<>>)
      \o (IF ~Truthy(project_info.delivery_point)
          THEN << <<"DELIVERY RISK: Power delivery point is not specified">> >>
          ELSE <<>>)

_check_contract_risks(project_info) ==
  LET rec == project_info.environmental_attributes_ownership
  IN  (IF project_info.liquidated_damages_mention = Bool(FALSE)
       THEN << <<"CONTRACT RISK: Liquidated damages provisions are not mentioned, which may affect project's risk allocation">> >>
       ELSE <<>>)
      \o (IF ~Truthy(rec)
          THEN << <<"UNCLEAR REC OWNERSHIP: Environmental attributes (RECs) ownership is not specified">> >>
          ELSE IF Contains(Lower(rec.v), <<"seller">>)
          THEN << <<"REC OWNERSHIP NOTE: Seller retains environmental attributes, which may affect project economics">> >>
          ELSE <<>>)
      \o (IF ~Truthy(project_info.guaranteed_output_or_availability)
          THEN << <<"PERFORMANCE RISK: No guaranteed output or availability metrics specified">> >>
          ELSE <<>>)
      \o (IF ~Truthy(project_info.delivery_point)
          THEN << <<"DELIVERY RISK: Power delivery point is not specified">> >>
          ELSE <<>>)

analyze_project_contract_first(project_info) ==
  IF project_info = None THEN Return(<<>>)
  ELSE LET ppa_flag == _check_ppa_term_length(project_info)
           size == _check_project_size(project_info)
       IN  IF ppa_flag.raised THEN ppa_flag
           ELSE IF size.raised THEN size
           ELSE Return((IF ppa_flag.value # None THEN <<ppa_flag.value.v>> ELSE <<>>)
                       \o size.value
                       \o _check_missing_critical_info(project_info)
                       \o _check_contract_risks(project_info)
                       \o _check_environmental_risks(project_info))

\* RiskFlagger.analyze_project; project_info is a ProjectInfo or None
analyze_project(project_info) ==
  IF project_info = None THEN Return(<<>>)
  ELSE LET ppa_flag == _check_ppa_term_length(project_info)
           size == _check_project_size(project_info)
       IN  IF ppa_flag.raised THEN ppa_flag
           ELSE IF size.raised THEN size
           ELSE Return((IF ppa_flag.value # None THEN <<ppa_flag.value.v>> ELSE <<>>)
                       \o size.value
                       \o _check_missing_critical_info(project_info)
                       \o _check_environmental_risks(project_info)
                       \o _check_contract_risks(project_info))

-----------------------------------------------------------------------------
(* app/db/models.py: DocumentAnalysis, and the session operations used *)

Columns ==
  direct_fields \cup
  {"original_filename", "processing_status", "processing_notes",
   "developer_external_summary", "offtaker_external_summary",
   "summary", "risk_flags", "extracted_text_preview"}

\* DocumentAnalysis(original_filename=..., processing_status=...): a transient
\* object without id; unset columns are None
DocumentAnalysis(original_filename, processing_status) ==
  [id |-> None,
   attrs |-> [c \in Columns |->
                CASE c = "original_filename" -> original_filename
                  [] c = "processing_status" -> processing_status
                  [] OTHER -> None]]

\* the text of a token string
RECURSIVE JoinTokens(_)
JoinTokens(s) == IF s = <<>> THEN "" ELSE Head(s) \o JoinTokens(Tail(s))

\* Column(Float): the value bound to the statement is float(value), so an
\* int or a numeric str is stored as a float and any other str raises
FloatColumns == {"capacity_mw", "term_length_years"}

to_float(value) ==
  CASE value.kind = "none" -> Return(None)
    [] value.kind \in {"int", "float"} -> Return(FloatVal(value.v))
    [] OTHER -> LET number == PyFloat(JoinTokens(value.v))
                IN  IF number.raised THEN number ELSE Return(FloatVal(number.value))

\* Column(JSONEncodedDict): json.dumps on the way in, json.loads on the way out
JSONColumns ==
  {"key_counterparties", "key_permits_mentioned", "key_environmental_concerns",
   "key_project_dates", "risk_flags"}

process_bind_param(value) ==
  IF value # None THEN [kind |-> "json", v |-> value] ELSE None

process_result_value(value) ==
  IF value # None THEN value.v ELSE None

\* the row values a flush binds for the object's attributes; it raises when a
\* Float column cannot be bound
BindRow(attrs) ==
  IF \E c \in FloatColumns : to_float(attrs[c]).raised
  THEN to_float(attrs[CHOOSE c \in FloatColumns : to_float(attrs[c]).raised])
  ELSE Return([c \in Columns |->
                 IF c \in FloatColumns THEN to_float(attrs[c]).value
                 ELSE IF c \in JSONColumns THEN process_bind_param(attrs[c])
                 ELSE attrs[c]])

\* the attributes an object gets when it is loaded from its row
LoadRow(row) ==
  [c \in Columns |-> IF c \in JSONColumns THEN process_result_value(row[c]) ELSE row[c]]

\* db.add(obj) followed by a db.commit() that returns: the INSERT of a
\* transient object, which receives the next primary key
Insert(tbl, obj) == Append(tbl, BindRow(obj.attrs).value)

InsertedFirstRow(tbl, obj) == [obj EXCEPT !.id = IntVal(1)]

\* the object after that INSERT: its id is the autoincremented primary key
Inserted(tbl, obj) == [obj EXCEPT !.id = IntVal(Len(tbl) + 1)]

\* a db.commit() that returns: the UPDATE of the object's row. An object
\* whose INSERT was rolled back is no longer in the session (id None) and
\* nothing is flushed for it
CommitTable(tbl, obj) ==
  IF obj.id = None THEN tbl ELSE [tbl EXCEPT ![obj.id.v] = BindRow(obj.attrs).value]

\* a db.commit() that raises rolls the session back: a pending object is
\* expunged with its attributes as they are, a persistent object is expired,
\* so that its attributes read as the committed row again
Rollback(tbl, obj) ==
  IF obj.id = None THEN obj ELSE [obj EXCEPT !.attrs = LoadRow(tbl[obj.id.v])]

\* db.refresh: reload the attributes from the committed row
Refresh(tbl, obj) == [obj EXCEPT !.attrs = LoadRow(tbl[obj.id.v])]

\* setattr(db_record, column, value)
SetAttrs(obj, data) ==
  [obj EXCEPT !.attrs = [c \in Columns |-> IF c \in DOMAIN data THEN data[c] ELSE @[c]]]

-----------------------------------------------------------------------------
(* upload_document *)

allowed_extensions_with_txt == {".pdf", ".docx", ".doc", ".txt"}

\* line 172
allowed_extensions == {".pdf", ".docx", ".doc"}

\* Path(file.filename).suffix of the uploads the model submits
Suffixes == {".pdf", ".DOCX", ".doc", ".txt"}

SuffixLower(suffix) == IF suffix = ".DOCX" THEN ".docx" ELSE suffix

\* streamlit_app.poll_status before its first request (lines 145-146)
PollLocals ==
  [at |-> "request", retry_count |-> 0, status |-> None, raised |-> << >>]

NoLocals ==
  [ext |-> None, extracted_text |-> None, project_info |-> None,
   summary |-> None, risk_flags |-> None, error_msg |-> None]

Init ==
  /\ TASKS = << >>
  /\ table = << >>
  /\ files = {}
  /\ pc = [t \in TaskIds |-> "idle"]
  /\ db_record = [t \in TaskIds |-> None]
  /\ details = [t \in TaskIds |-> << >>]
  /\ locals = [t \in TaskIds |-> NoLocals]
  /\ trace = [t \in TaskIds |-> {}]
  /\ client = [t \in TaskIds |-> PollLocals]

\* a request with a file type outside the allow-list: HTTP 400
UploadRejected(t, suffix) ==
  /\ pc[t] = "idle"
  /\ UNCHANGED client
  /\ SuffixLower(suffix) \notin allowed_extensions
  /\ pc' = [pc EXCEPT ![t] = "rejected"]
  /\ trace' = [trace EXCEPT ![t] = @ \cup {"http_400"}]
  /\ locals' = [locals EXCEPT ![t].ext = Str(<<SuffixLower(suffix)>>)]
  /\ UNCHANGED <<TASKS, table, files, db_record, details>>

\* a request whose file cannot be written: HTTP 500
UploadSaveFails(t, suffix) ==
  /\ pc[t] = "idle"
  /\ UNCHANGED client
  /\ SuffixLower(suffix) \in allowed_extensions
  /\ pc' = [pc EXCEPT ![t] = "rejected"]
  /\ trace' = [trace EXCEPT ![t] = @ \cup {"http_500"}]
  /\ locals' = [locals EXCEPT ![t].ext = Str(<<SuffixLower(suffix)>>)]
  /\ UNCHANGED <<TASKS, table, files, db_record, details>>

\* an accepted request: file saved, TASKS entry created, task scheduled
upload_document(t, suffix) ==
  /\ pc[t] = "idle"
  /\ UNCHANGED client
  /\ SuffixLower(suffix) \in allowed_extensions
  /\ files' = files \cup {t}
  /\ TASKS' = (t :> [status |-> "processing"]) @@ TASKS
  /\ locals' = [locals EXCEPT ![t].ext = Str(<<SuffixLower(suffix)>>)]
  /\ pc' = [pc EXCEPT ![t] = "scheduled"]
  /\ UNCHANGED <<table, db_record, details, trace>>

-----------------------------------------------------------------------------
(* process_document *)

Goto(t, label) == pc' = [pc EXCEPT ![t] = label]
Observe(t, events) == trace' = [trace EXCEPT ![t] = @ \cup events]

\* an exception reaches the outer `except Exception as e` with str(e) = msg
RaiseToHandler(t, msg, events) ==
  /\ locals' = [locals EXCEPT ![t].error_msg = Str(msg)]
  /\ Goto(t, "handler")
  /\ Observe(t, events)

\* outcomes of db.commit() followed by db.refresh(), and of db.commit() alone
StoreOutcomes == {"ok", "commit_raises", "refresh_raises"}

CommitOutcomes == {"ok", "commit_raises"}

\* lines 30-40: create the record with status Processing, commit, refresh,
\* publish "processing" with the record id
CreateRecord(t, outcome) ==
  /\ pc[t] = "scheduled"
  /\ UNCHANGED client
  /\ LET rec == DocumentAnalysis(Str(<<t>> \o locals[t].ext.v), Str(<<"Processing">>))
         saved == Inserted(table, rec)
     IN  CASE outcome = "ok" ->
                /\ table' = Insert(table, rec)
                /\ db_record' = [db_record EXCEPT ![t] = Refresh(table', saved)]
                /\ TASKS' = [TASKS EXCEPT ![t] =
                               [status |-> "processing", analysis_id |-> saved.id]]
                /\ Goto(t, "load")
                /\ UNCHANGED <<files, details, locals, trace>>
           [] outcome = "commit_raises" ->
                /\ db_record' = [db_record EXCEPT ![t] = Rollback(table, rec)]
                /\ RaiseToHandler(t, <<"database error">>, {"commit_36_raised"})
                /\ UNCHANGED <<TASKS, table, files, details>>
           [] outcome = "refresh_raises" ->
                /\ table' = Insert(table, rec)
                /\ db_record' = [db_record EXCEPT ![t] = Refresh(table', saved)]
                /\ RaiseToHandler(t, <<"database error">>, {"refresh_37_raised"})
                /\ UNCHANGED <<TASKS, files, details>>

\* extracted document text: its length in characters and a literal tail
Text(n) == [kind |-> "text", len |-> n, tail |-> << >>]

PreviewLen == 500

\* extracted_text[:500] + "..." if len(extracted_text) > 500 else extracted_text
Preview(text) ==
  IF text.len > PreviewLen
  THEN [kind |-> "text", len |-> PreviewLen, tail |-> <<"...">>]
  ELSE text

\* texts the loader extracts in the model
Texts == {Text(120), Text(501)}

\* what reading the file can do: extract a text, or fail inside pypdf / docx
ReadOutcomes == [kind : {"text"}, text : Texts] \cup {[kind |-> "error"]}

\* DocumentLoader.load_document
load_document(exists, file_name, file_type, read) ==
  IF ~exists THEN Raise(<<"File not found: ", file_name>>)
  ELSE IF file_type \notin {".pdf", ".docx", ".doc"}
  THEN Return([success |-> FALSE, text |-> Text(0),
               error |-> <<"Unsupported file type: ", file_type>>])
  ELSE IF read.kind = "text"
  THEN Return([success |-> TRUE, text |-> read.text])
  ELSE Return([success |-> FALSE, text |-> Text(0),
               error |-> <<"cannot read ", file_type>>])

\* lines 42-50
LoadDocument(t, read) ==
  /\ pc[t] = "load"
  /\ UNCHANGED client
  /\ LET doc_result == load_document(t \in files, t, locals[t].ext.v[1], read)
     IN  IF doc_result.raised
         THEN /\ RaiseToHandler(t, doc_result.err, {"load_raised"})
              /\ UNCHANGED <<db_record, details>>
         ELSE IF ~doc_result.value.success
         THEN LET error_msg == <<"Failed to load document: ">> \o doc_result.value.error
              IN  /\ details' = [details EXCEPT ![t] = Append(@, error_msg)]
                  /\ RaiseToHandler(t, error_msg, {"load_unsuccessful"})
                  /\ UNCHANGED db_record
         ELSE /\ locals' = [locals EXCEPT ![t].extracted_text = doc_result.value.text]
              /\ db_record' = [db_record EXCEPT ![t] =
                    SetAttrs(@, [extracted_text_preview |-> Preview(doc_result.value.text)])]
              /\ Goto(t, "construct")
              /\ UNCHANGED <<details, trace>>
  /\ UNCHANGED <<TASKS, table, files>>

\* the uploaded file disappears from UPLOAD_DIR while the task is pending
FileVanishes(t) ==
  /\ pc[t] \in {"scheduled", "load"}
  /\ UNCHANGED client
  /\ t \in files
  /\ files' = files \ {t}
  /\ Observe(t, {"file_vanished"})
  /\ UNCHANGED <<TASKS, table, pc, db_record, details, locals>>

\* ExtractKeyInfo.__init__ / DocumentSummarizer.__init__ /
\* ExternalInfoFetcher.__init__: ValueError without ANTHROPIC_API_KEY
ExtractKeyInfo(api_key) ==
  IF api_key THEN Return("extractor") ELSE Raise(<<"ANTHROPIC_API_KEY must be set">>)

DocumentSummarizer(api_key) ==
  IF api_key THEN Return("summarizer")
  ELSE Raise(<<"ANTHROPIC_API_KEY must be set in environment variables">>)

ExternalInfoFetcher(api_key) ==
  IF api_key THEN Return("info_fetcher")
  ELSE Raise(<<"ANTHROPIC_API_KEY environment variable is required">>)

\* lines 52-54: both constructors run outside the per-stage try blocks
Construct(t, extractor_key, summarizer_key) ==
  /\ pc[t] = "construct"
  /\ UNCHANGED client
  /\ LET extractor == ExtractKeyInfo(extractor_key)
         summarizer == DocumentSummarizer(summarizer_key)
     IN  IF extractor.raised
         THEN RaiseToHandler(t, extractor.err, {"extractor_init_raised"})
         ELSE IF summarizer.raised
         THEN RaiseToHandler(t, summarizer.err, {"summarizer_init_raised"})
         ELSE /\ Goto(t, "extract")
              /\ UNCHANGED <<locals, trace>>
  /\ UNCHANGED <<TASKS, table, files, db_record, details>>

\* facts the extractor returns in the model
FactsShortPPA ==
  With(ProjectInfo,
       [project_name |-> Str(<<"Sunrise Solar">>),
        capacity_mw |-> FloatVal(4),
        developer_name |-> Str(<<"Acme Renewables">>),
        purchaser_or_offtaker |-> Str(<<"City Utility">>),
        agreement_type |-> Str(<<"PPA">>),
        term_length_years |-> IntVal(10),
        key_environmental_concerns |-> List(<< <<"wildlife">> >>),
        mitigation_mentioned |-> Bool(FALSE)])

FactsTermInWords ==
  With(ProjectInfo,
       [developer_name |-> Str(<<"Acme Renewables">>),
        term_length_years |-> Str(<<"twenty (20) years">>)])

FactsOfftakerOnly ==
  With(ProjectInfo,
       [developer_name |-> Str(<< >>),
        purchaser_or_offtaker |-> Str(<<"City Utility">>),
        term_length_years |-> Str(<<"20">>),
        key_permits_mentioned |-> List(<< <<"ROW grant">> >>)])

PipelineFacts == {ProjectInfo, FactsShortPPA, FactsTermInWords, FactsOfftakerOnly}

\* A model reply (response.content[0].text) is a sequence of tokens: pieces
\* of text, the braces, and the members of a JSON object between braces
ReplyText(text) == [t |-> "text", v |-> text]
OpenBrace == [t |-> "{"]
CloseBrace == [t |-> "}"]
Members(data) == [t |-> "members", data |-> data]

keep_leading_text(content) == content

\* line 50: content[content.find('{'):] if '{' in content else content
strip_before_object(content) ==
  IF \E i \in 1..Len(content) : content[i] = OpenBrace
  THEN LET first == CHOOSE i \in 1..Len(content) :
                      /\ content[i] = OpenBrace
                      /\ \A k \in 1..(i - 1) : content[k] # OpenBrace
       IN  SubSeq(content, first, Len(content))
  ELSE content

\* line 52: content[:content.rfind('}')+1] if '}' in content else content
strip_after_object(content) ==
  IF \E i \in 1..Len(content) : content[i] = CloseBrace
  THEN LET last == CHOOSE i \in 1..Len(content) :
                     /\ content[i] = CloseBrace
                     /\ \A k \in (i + 1)..Len(content) : content[k] # CloseBrace
       IN  SubSeq(content, 1, last)
  ELSE content

\* lines 54 and 56 on the characters of a string: control characters are
\* removed, runs of whitespace become one space
RECURSIVE CleanStr(_)
CleanStr(s) ==
  IF s = << >> THEN << >>
  ELSE IF Head(s) = "\\x07" THEN CleanStr(Tail(s))
  ELSE IF Head(s) = "  " THEN <<" ">> \o CleanStr(Tail(s))
  ELSE <<Head(s)>> \o CleanStr(Tail(s))

CleanValue(value) ==
  CASE value.kind = "str" -> Str(CleanStr(value.v))
    [] value.kind = "list" -> List([i \in 1..Len(value.v) |-> CleanStr(value.v[i])])
    [] OTHER -> value

clean(content) ==
  [i \in 1..Len(content) |->
     IF content[i].t = "members"
     THEN Members([k \in DOMAIN content[i].data |-> CleanValue(content[i].data[k])])
     ELSE content[i]]

\* json.loads(content): the text must be exactly one JSON object
json_loads(content) ==
  IF content = <<OpenBrace, CloseBrace>> THEN Return(<< >>)
  ELSE IF /\ Len(content) = 3
          /\ content[1] = OpenBrace
          /\ content[2].t = "members"
          /\ content[3] = CloseBrace
       THEN Return(content[2].data)
       ELSE Raise(<<"JSONDecodeError">>)

\* data.setdefault(key, default)
setdefault(data, key, default) ==
  [k \in DOMAIN data \cup {key} |-> IF k \in DOMAIN data THEN data[k] ELSE default]

\* pydantic's validation of a value against the declared type of a field
FloatFields == {"capacity_mw"}
IntFields == {"number_of_units"}
BoolFields == {"liquidated_damages_mention", "mitigation_mentioned"}
UnionFields == {"term_length_years"}

Validate(field, value) ==
  LET error == Raise(<<"validation error for ProjectInfo: ", field>>)
  IN  IF field \in ListFields
      THEN IF value.kind = "list" THEN Return(value) ELSE error
      ELSE IF value = None THEN Return(None)
      ELSE IF field \in FloatFields
      THEN (CASE value.kind \in {"int", "float"} -> Return(FloatVal(value.v))
              [] value.kind = "str" ->
                   (IF PyFloat(JoinTokens(value.v)).raised THEN error
                    ELSE Return(FloatVal(PyFloat(JoinTokens(value.v)).value)))
              [] OTHER -> error)
      ELSE IF field \in IntFields
      THEN (CASE value.kind \in {"int", "float"} -> Return(IntVal(value.v))
              [] value.kind = "str" ->
                   (IF PyInt(value.v).raised THEN error ELSE Return(IntVal(PyInt(value.v).value)))
              [] OTHER -> error)
      ELSE IF field \in BoolFields
      THEN (IF value.kind = "bool" THEN Return(value) ELSE error)
      ELSE IF field \in UnionFields
      THEN (CASE value.kind \in {"int", "str"} -> Return(value)
              [] value.kind = "float" -> Return(IntVal(value.v))
              [] OTHER -> error)
      ELSE IF value.kind = "str" THEN Return(value) ELSE error

\* cls(**data): keys that are no field are ignored, absent fields take their
\* default, one invalid value fails the whole construction
Construct_ProjectInfo(data) ==
  LET given == DOMAIN data \cap direct_fields
  IN  IF \E f \in given : Validate(f, data[f]).raised
      THEN Raise(<<"validation error for ProjectInfo">>)
      ELSE Return([f \in direct_fields |->
                     IF f \in given THEN Validate(f, data[f]).value ELSE ProjectInfo[f]])

\* lines 58-64, inside the try of parse_response
parse_object(content) ==
  LET loaded == json_loads(content)
  IN  IF loaded.raised THEN loaded
      ELSE Construct_ProjectInfo(
             setdefault(setdefault(setdefault(setdefault(loaded.value,
               "key_counterparties", List(<< >>)),
               "key_permits_mentioned", List(<< >>)),
               "key_environmental_concerns", List(<< >>)),
               "key_project_dates", List(<< >>)))

\* ProjectInfo.parse_response: whatever fails gives ProjectInfo() (lines 65-67)
parse_response(content) ==
  LET parsed == parse_object(clean(strip_after_object(strip_before_object(content))))
  IN  IF parsed.raised THEN ProjectInfo ELSE parsed.value

\* the reply that states the given facts, every field of the schema present
ReplyOf(info) == <<OpenBrace, Members(info), CloseBrace>>

ReplyNotJSON == <<ReplyText("I could not find any project information.")>>

PipelineReplies == {ReplyOf(info) : info \in PipelineFacts} \cup {ReplyNotJSON}

\* what the model call of extract_info can do: reply, or fail
ExtractOutcomes ==
  [kind : {"reply"}, content : PipelineReplies] \cup {[kind |-> "api_error"]}

\* ExtractKeyInfo.extract_info: any exception is re-raised with a prefix
extract_info(outcome) ==
  IF outcome.kind # "api_error" THEN Return(parse_response(outcome.content))
  ELSE Raise(<<"Error extracting information: ", "connection error">>)

\* lines 56-60
ExtractInfo(t, outcome) ==
  /\ pc[t] = "extract"
  /\ UNCHANGED client
  /\ LET project_info == extract_info(outcome)
     IN  IF project_info.raised
         THEN /\ details' = [details EXCEPT ![t] =
                    Append(@, <<"Error extracting information: ">> \o project_info.err)]
              /\ locals' = [locals EXCEPT ![t].project_info = None]
              /\ Observe(t, {"extract_raised"})
         ELSE /\ locals' = [locals EXCEPT ![t].project_info = project_info.value]
              /\ Observe(t, IF outcome.content = ReplyNotJSON THEN {"response_unparsable"} ELSE {})
              /\ UNCHANGED details
  /\ Goto(t, "summarize")
  /\ UNCHANGED <<TASKS, table, files, db_record>>

\* a DocumentSummary instance: the fields the pydantic model declares
DocumentSummary ==
  [executive_summary |-> Str(<<"A 4 MW solar project.">>),
   key_highlights |-> Str(<<"Technology: PV">>),
   risks_and_considerations |-> List(<< >>),
   next_steps |-> List(<< >>)]

SummarizeOutcomes == {"summary", "api_error"}

\* DocumentSummarizer.summarize: a DocumentSummary, or any failure re-raised
summarize(outcome) ==
  IF outcome = "summary" THEN Return(DocumentSummary)
  ELSE Raise(<<"Error generating summary: ", "connection error">>)

\* obj.name on a pydantic model instance
GetAttr(obj, type_name, name) ==
  IF name \in DOMAIN obj THEN Return(obj[name])
  ELSE Raise(<<"'", type_name, "' object has no attribute '", name, "'">>)

\* lines 62-67: summarize, then read doc_summary.content
Summarize(t, outcome) ==
  /\ pc[t] = "summarize"
  /\ UNCHANGED client
  /\ LET doc_summary == summarize(outcome)
         content == IF doc_summary.raised THEN doc_summary
                    ELSE GetAttr(doc_summary.value, "DocumentSummary", "content")
     IN  IF content.raised
         THEN /\ details' = [details EXCEPT ![t] =
                    Append(@, <<"Error generating summary: ">> \o content.err)]
              /\ locals' = [locals EXCEPT ![t].summary = None]
              /\ Observe(t, IF doc_summary.raised THEN {"summarize_raised"}
                            ELSE {"summarize_returned", "content_raised"})
         ELSE /\ locals' = [locals EXCEPT ![t].summary = content.value]
              /\ Observe(t, {"summarize_returned"})
              /\ UNCHANGED details
  /\ Goto(t, "analyze")
  /\ UNCHANGED <<TASKS, table, files, db_record>>

RiskInputNeedsSummary(t) ==
  IF locals[t].summary = None THEN None ELSE locals[t].project_info

\* line 72: the facts handed to rule evaluation
RiskInput(t) == locals[t].project_info

risk_flags_on_defaults(project_info) ==
  analyze_project(IF project_info # None THEN project_info ELSE ProjectInfo)

\* line 72: risk_flagger.analyze_project(project_info) if project_info else []
risk_flags_of(project_info) ==
  IF project_info # None THEN analyze_project(project_info) ELSE Return(<< >>)

\* lines 69-75
AnalyzeRisks(t) ==
  /\ pc[t] = "analyze"
  /\ UNCHANGED client
  /\ LET project_info == RiskInput(t)
         risk_flags == risk_flags_of(project_info)
     IN  IF risk_flags.raised
         THEN /\ details' = [details EXCEPT ![t] =
                    Append(@, <<"Error analyzing risks: ">> \o risk_flags.err)]
              /\ locals' = [locals EXCEPT ![t].risk_flags = List(<< >>)]
              /\ Observe(t, {"analyze_raised"})
         ELSE /\ locals' = [locals EXCEPT ![t].risk_flags = List(risk_flags.value)]
              /\ Observe(t, IF project_info # None THEN {"analyze_returned"} ELSE {})
              /\ UNCHANGED details
  /\ Goto(t, "update")
  /\ UNCHANGED <<TASKS, table, files, db_record>>

FinalStatusOptimistic(processing_error_details) == Str(<<"Completed">>)

\* line 78: the status from the warnings recorded so far
FinalStatus(processing_error_details) ==
  IF processing_error_details = << >> THEN Str(<<"Completed">>) ELSE Str(<<"Partial">>)

FinalNotesInverted(processing_error_details) ==
  IF processing_error_details = << >> THEN Str(JoinNotes(processing_error_details))
  ELSE Str(<<"Completed successfully">>)

\* line 79: the notes from the warnings recorded so far
FinalNotes(processing_error_details) ==
  IF processing_error_details # << >> THEN Str(JoinNotes(processing_error_details))
  ELSE Str(<<"Completed successfully">>)

\* lines 77-99: status, notes, summary, flags and the fact fields are set on
\* the record (in memory)
UpdateRecord(t) ==
  /\ pc[t] = "update"
  /\ UNCHANGED client
  /\ LET project_info == locals[t].project_info
         outputs == [processing_status |-> FinalStatus(details[t]),
                     processing_notes |-> FinalNotes(details[t]),
                     summary |-> locals[t].summary,
                     risk_flags |-> locals[t].risk_flags]
         updated == SetAttrs(db_record[t], outputs)
     IN  IF project_info # None
         THEN /\ db_record' = [db_record EXCEPT ![t] = SetAttrs(updated, project_info)]
              /\ Goto(t, "research")
         ELSE /\ db_record' = [db_record EXCEPT ![t] = updated]
              /\ Goto(t, "commit")
  /\ UNCHANGED <<TASKS, table, files, details, locals, trace>>

\* what one entity lookup can meet: an exception inside the search or the
\* model call, no search results, or a summary
FetchOutcomes == {"exception", "no_results", "summary"}

fetch_and_summarize_entity_info_unguarded(entity_name, outcome) ==
  IF ~Truthy(entity_name) THEN Return(None)
  ELSE IF outcome = "exception" THEN Raise(<<"search failed">>)
  ELSE IF outcome = "no_results" THEN Return(None)
  ELSE Return(Str(<<"External summary of ">> \o entity_name.v))

\* ExternalInfoFetcher.fetch_and_summarize_entity_info: every exception is
\* logged and turned into None
fetch_and_summarize_entity_info(entity_name, outcome) ==
  IF ~Truthy(entity_name) THEN Return(None)
  ELSE IF outcome = "exception" THEN Return(None)
  ELSE IF outcome = "no_results" THEN Return(None)
  ELSE Return(Str(<<"External summary of ">> \o entity_name.v))

\* an exception inside the entity-research try block (line 115)
ResearchRaised(t, err, events) ==
  /\ details' = [details EXCEPT ![t] =
        Append(@, <<"Error fetching external info: ">> \o err)]
  /\ Goto(t, "commit")
  /\ Observe(t, events)
  /\ UNCHANGED db_record

\* line 103
StartResearch(t, api_key) ==
  /\ pc[t] = "research"
  /\ UNCHANGED client
  /\ LET info_fetcher == ExternalInfoFetcher(api_key)
     IN  IF info_fetcher.raised
         THEN ResearchRaised(t, info_fetcher.err, {"fetcher_init_raised"})
         ELSE /\ Goto(t, "developer")
              /\ UNCHANGED <<db_record, details, trace>>
  /\ UNCHANGED <<TASKS, table, files, locals>>

\* one lookup of lines 105-113 for the party named in `name_field`
Lookup(t, name_field, summary_field, party, next, outcome) ==
  LET entity_name == db_record[t].attrs[name_field]
  IN  IF Truthy(entity_name)
      THEN LET summary == fetch_and_summarize_entity_info(entity_name, outcome)
               events == {party \o "_lookup_ran"} \cup
                         (IF outcome = "exception" THEN {party \o "_lookup_failed"}
                          ELSE IF outcome = "summary" THEN {party \o "_lookup_found"}
                          ELSE {})
           IN  IF summary.raised
               THEN ResearchRaised(t, summary.err, events)
               ELSE /\ db_record' = [db_record EXCEPT ![t] =
                          SetAttrs(@, (summary_field :> summary.value))]
                    /\ Goto(t, next)
                    /\ Observe(t, events)
                    /\ UNCHANGED details
      ELSE /\ Goto(t, next)
           /\ UNCHANGED <<db_record, details, trace>>

\* lines 105-108
FetchDeveloper(t, outcome) ==
  /\ pc[t] = "developer"
  /\ UNCHANGED client
  /\ Lookup(t, "developer_name", "developer_external_summary", "developer",
            "offtaker", outcome)
  /\ UNCHANGED <<TASKS, table, files, locals>>

\* lines 110-113
FetchOfftaker(t, outcome) ==
  /\ pc[t] = "offtaker"
  /\ UNCHANGED client
  /\ Lookup(t, "purchaser_or_offtaker", "offtaker_external_summary", "offtaker",
            "commit", outcome)
  /\ UNCHANGED <<TASKS, table, files, locals>>

\* lines 118-119: commit the results and refresh the record; the commit
\* raises when the store fails and whenever a value cannot be bound
CommitResults(t, outcome) ==
  /\ pc[t] = "commit"
  /\ UNCHANGED client
  /\ LET bound == BindRow(db_record[t].attrs)
     IN  CASE outcome = "commit_raises" \/ bound.raised ->
                /\ outcome = "commit_raises"
                /\ db_record' = [db_record EXCEPT ![t] = Rollback(table, @)]
                /\ IF bound.raised
                   THEN RaiseToHandler(t, bound.err, {"commit_118_raised", "bind_raised"})
                   ELSE RaiseToHandler(t, <<"database error">>, {"commit_118_raised"})
                /\ UNCHANGED table
           [] outcome = "ok" /\ ~bound.raised ->
                /\ table' = CommitTable(table, db_record[t])
                /\ db_record' = [db_record EXCEPT ![t] = Refresh(table', @)]
                /\ Goto(t, "publish")
                /\ UNCHANGED <<locals, trace>>
           [] outcome = "refresh_raises" /\ ~bound.raised ->
                /\ table' = CommitTable(table, db_record[t])
                /\ db_record' = [db_record EXCEPT ![t] = Refresh(table', @)]
                /\ RaiseToHandler(t, <<"database error">>, {"refresh_119_raised"})
  /\ UNCHANGED <<TASKS, files, details>>

Dict(d) == [kind |-> "dict", v |-> d]

\* the payload of lines 122-139
ResultPayload(record, processing_error_details, project_info, summary, risk_flags) ==
  LET developer_name == record.attrs["developer_name"]
      offtaker_name == record.attrs["purchaser_or_offtaker"]
  IN  [status |-> IF processing_error_details = << >> THEN "completed" ELSE "partial",
       project_info |-> IF project_info # None THEN Dict(project_info) ELSE Dict(<< >>),
       summary |-> IF Truthy(summary) THEN summary ELSE Str(<< >>),
       risk_flags |-> IF Truthy(risk_flags) THEN risk_flags ELSE List(<< >>),
       processing_notes |-> record.attrs["processing_notes"],
       analysis_id |-> record.id,
       external_info |->
         IF Truthy(developer_name) \/ Truthy(offtaker_name)
         THEN Dict([developer |->
                      IF Truthy(developer_name)
                      THEN Dict([name |-> developer_name,
                                 summary |-> record.attrs["developer_external_summary"]])
                      ELSE None,
                    offtaker |->
                      IF Truthy(offtaker_name)
                      THEN Dict([name |-> offtaker_name,
                                 summary |-> record.attrs["offtaker_external_summary"]])
                      ELSE None])
         ELSE Dict(<< >>)]

\* lines 121-139
Publish(t) ==
  /\ pc[t] = "publish"
  /\ UNCHANGED client
  /\ TASKS' = [TASKS EXCEPT ![t] =
        ResultPayload(db_record[t], details[t], locals[t].project_info,
                      locals[t].summary, locals[t].risk_flags)]
  /\ Goto(t, "cleanup")
  /\ Observe(t, {"published"})
  /\ UNCHANGED <<table, files, db_record, details, locals>>

\* the payload of lines 147-156
ErrorPayload(record, error_msg) ==
  [status |-> "error",
   message |-> error_msg,
   project_info |-> Dict(<< >>),
   summary |-> Str(<< >>),
   risk_flags |-> List(<< >>),
   processing_notes |-> error_msg,
   analysis_id |-> IF record # None THEN record.id ELSE None,
   external_info |-> Dict(<< >>)]

MarkFailedStatusOnly(record, error_msg) ==
  SetAttrs(record, [processing_status |-> Str(<<"Failed">>)])

\* lines 144-145
MarkFailed(record, error_msg) ==
  SetAttrs(record, [processing_status |-> Str(<<"Failed">>),
                    processing_notes |-> error_msg])

ExitWithoutFinally(propagating) == IF propagating THEN "done" ELSE "cleanup"

\* line 157: the finally block is entered when the try statement returns and
\* when an exception of the handler itself is propagating
ExitThroughFinally(propagating) == "cleanup"

\* lines 141-156: the outer except; an exception of its own commit leaves
\* process_document through the finally block
HandleFailure(t, outcome) ==
  /\ pc[t] = "handler"
  /\ UNCHANGED client
  /\ LET error_msg == locals[t].error_msg
         failed == IF db_record[t] # None
                   THEN MarkFailed(db_record[t], error_msg)
                   ELSE None
     IN  IF failed # None /\ (outcome = "commit_raises" \/ BindRow(failed.attrs).raised)
         THEN /\ db_record' = [db_record EXCEPT ![t] = Rollback(table, failed)]
              /\ Observe(t, {"commit_146_raised", "exception_propagated"})
              /\ UNCHANGED <<TASKS, table>>
         ELSE /\ table' = IF failed # None THEN CommitTable(table, failed) ELSE table
              /\ db_record' = [db_record EXCEPT ![t] = failed]
              /\ TASKS' = [TASKS EXCEPT ![t] = ErrorPayload(failed, error_msg)]
              /\ Observe(t, {"handled"})
  /\ Goto(t, ExitThroughFinally(db_record[t] # None /\ outcome = "commit_raises"))
  /\ UNCHANGED <<files, details, locals>>

\* lines 157-162: unlink the upload; its own failure is swallowed
Cleanup(t) ==
  /\ pc[t] = "cleanup"
  /\ UNCHANGED client
  /\ files' = files \ {t}
  /\ Observe(t, IF t \in files THEN {} ELSE {"unlink_raised"})
  /\ Goto(t, "done")
  /\ UNCHANGED <<TASKS, table, db_record, details, locals>>

-----------------------------------------------------------------------------
(* Specification *)

\* the steps of the submission with task id t
Step(t) ==
  \/ \E suffix \in Suffixes : UploadRejected(t, suffix)
  \/ \E suffix \in Suffixes : UploadSaveFails(t, suffix)
  \/ \E suffix \in Suffixes : upload_document(t, suffix)
  \/ \E outcome \in StoreOutcomes : CreateRecord(t, outcome)
  \/ FileVanishes(t)
  \/ \E read \in ReadOutcomes : LoadDocument(t, read)
  \/ \E k1 \in BOOLEAN, k2 \in BOOLEAN : Construct(t, k1, k2)
  \/ \E outcome \in ExtractOutcomes : ExtractInfo(t, outcome)
  \/ \E outcome \in SummarizeOutcomes : Summarize(t, outcome)
  \/ AnalyzeRisks(t)
  \/ UpdateRecord(t)
  \/ \E api_key \in BOOLEAN : StartResearch(t, api_key)
  \/ \E outcome \in FetchOutcomes : FetchDeveloper(t, outcome)
  \/ \E outcome \in FetchOutcomes : FetchOfftaker(t, outcome)
  \/ \E outcome \in StoreOutcomes : CommitResults(t, outcome)
  \/ Publish(t)
  \/ \E outcome \in CommitOutcomes : HandleFailure(t, outcome)
  \/ Cleanup(t)

\* one submission, followed from upload to the end of process_document
Next == Step("t1")

Spec == Init /\ [][Next]_vars

-----------------------------------------------------------------------------
(* Observations used by the properties *)

Completed == Str(<<"Completed">>)
Partial == Str(<<"Partial">>)
Failed == Str(<<"Failed">>)
Processing == Str(<<"Processing">>)

TerminalTaskStatus == {"completed", "partial", "error"}
TerminalRecordStatus == {Completed, Partial, Failed}

\* the committed row of the task's record, once the record has an id
HasRow(t) == db_record[t] # None /\ db_record[t].id # None
Row(t) == LoadRow(table[db_record[t].id.v])

Finished(t) == pc[t] = "done"
Saw(t, event) == event \in trace[t]

\* columns written by the stages after text extraction
StageColumns ==
  direct_fields \cup
  {"summary", "risk_flags", "developer_external_summary", "offtaker_external_summary"}

\* a stage output that holds nothing
Empty(x) == ~Truthy(x)

\* no store operation of the run raised
StoreWorked(t) ==
  \A e \in {"commit_36_raised", "refresh_37_raised", "commit_118_raised",
            "refresh_119_raised", "commit_146_raised"} : ~Saw(t, e)

TextExtractionFailed(t) == Saw(t, "load_unsuccessful") \/ Saw(t, "load_raised")
TextExtracted(t) == locals[t].extracted_text # None

-----------------------------------------------------------------------------
(* Properties *)

\* C1: once process_document has returned, TASKS[task_id] and the persisted
\* record both hold a terminal status, whichever stage or store operation
\* failed during the run.
C1_TerminalOutcome ==
  \A t \in TaskIds :
    Finished(t) =>
      /\ TASKS[t].status \in TerminalTaskStatus
      /\ HasRow(t)
      /\ Row(t).processing_status \in TerminalRecordStatus

\* C2: when text extraction fails (success=False or an exception of the
\* loader), the record is finalized Failed with the extraction error in
\* processing_notes, and no fact field, summary, risk flag or external summary
\* is populated in the record or in the task-status payload.  The record and
\* the payload show Failed / error whenever the handler's own commit returned;
\* no stage column is populated in any case.
C2_ExtractionFailureIsFailed ==
  \A t \in TaskIds :
    (Finished(t) /\ TextExtractionFailed(t)) =>
      /\ \/ Contains(locals[t].error_msg.v, <<"Failed to load document: ">>)
         \/ Contains(locals[t].error_msg.v, <<"File not found: ">>)
      /\ \A c \in StageColumns : db_record[t].attrs[c] = None
      /\ HasRow(t) => \A c \in StageColumns : Row(t)[c] = None
      /\ Saw(t, "handled") =>
           /\ db_record[t].attrs["processing_status"] = Failed
           /\ db_record[t].attrs["processing_notes"] = locals[t].error_msg
           /\ HasRow(t)
           /\ Row(t).processing_status = Failed
           /\ Row(t).processing_notes = locals[t].error_msg
           /\ TASKS[t].status = "error"
           /\ TASKS[t].analysis_id = db_record[t].id
           /\ TASKS[t].processing_notes = locals[t].error_msg
           /\ TASKS[t].project_info = Dict(<< >>)
           /\ Empty(TASKS[t].summary)
           /\ Empty(TASKS[t].risk_flags)
           /\ TASKS[t].external_info = Dict(<< >>)
      /\ ~Saw(t, "handled") => DOMAIN TASKS[t] = {"status", "analysis_id"}

C2_Witness ==
  \E t \in TaskIds :
    /\ Finished(t) /\ Saw(t, "load_unsuccessful") /\ Saw(t, "handled")
    /\ Row(t).processing_status = Failed
    /\ TASKS[t].status = "error"

\* C3: if text extraction succeeded, a failure arising at any point of the
\* fact-extraction, summarization, rule-evaluation or entity-research stage
\* never finalizes the record as Failed nor the task as error (the store
\* operations of the run all succeeding).
C3_OnlyExtractionIsFatal ==
  \A t \in TaskIds :
    (TextExtracted(t) /\ StoreWorked(t)) =>
      /\ db_record[t].attrs["processing_status"] # Failed
      /\ HasRow(t) => Row(t).processing_status # Failed
      /\ TASKS[t].status # "error"


\* positions of process_document behind the rule-evaluation stage
AfterAnalysis ==
  {"update", "research", "developer", "offtaker", "commit", "publish",
   "handler", "cleanup", "done"}

SummaryFailureLine == <<"Error generating summary: ">>
RiskFailureLine == <<"Error analyzing risks: ">>
ResearchFailureLine == <<"Error fetching external info: ">>
ExtractionFailureLine == <<"Error extracting information: ">>

\* C4: a failure in summarization does not prevent rule evaluation: when fact
\* extraction produced facts and summarizer.summarize fails, the risk flags are
\* those of RiskFlagger.analyze_project(facts), the summary is empty, and the
\* record is committed Partial with a summary-failure line in its notes.
C4_SummaryFailureKeepsFlags ==
  \A t \in TaskIds :
    (Saw(t, "summarize_raised") /\ locals[t].project_info # None
       /\ pc[t] \in AfterAnalysis) =>
      LET flags == analyze_project(locals[t].project_info)
          expected == IF flags.raised THEN List(<< >>) ELSE List(flags.value)
      IN  /\ locals[t].summary = None
          /\ locals[t].risk_flags = expected
          /\ Saw(t, "analyze_returned") \/ Saw(t, "analyze_raised")
          /\ Saw(t, "analyze_raised") <=> flags.raised
          /\ Saw(t, "published") =>
               /\ Row(t).processing_status = Partial
               /\ Row(t).summary = None
               /\ Row(t).risk_flags = expected
               /\ Contains(Row(t).processing_notes.v, SummaryFailureLine)
               /\ flags.raised => Contains(Row(t).processing_notes.v, RiskFailureLine)
               /\ TASKS[t].status = "partial"
               /\ TASKS[t].risk_flags = expected
               /\ Empty(TASKS[t].summary)

C4_Witness ==
  \E t \in TaskIds :
    /\ Finished(t) /\ Saw(t, "summarize_raised") /\ Saw(t, "published")
    /\ locals[t].project_info = FactsShortPPA
    /\ Row(t).processing_status = Partial
    /\ Truthy(Row(t).risk_flags)
    /\ Row(t).risk_flags = List(analyze_project(FactsShortPPA).value)

BothPartiesNamed(t) ==
  /\ locals[t].project_info # None
  /\ Truthy(locals[t].project_info["developer_name"])
  /\ Truthy(locals[t].project_info["purchaser_or_offtaker"])

\* C5: when text extraction, fact extraction and rule evaluation succeed but
\* entity research fails for both the developer and the offtaker, the record
\* and the task status end Partial, summary and risk flags are non-empty, the
\* notes mention the research failure, and both external summaries are absent.
C5_ResearchFailureIsPartial ==
  \A t \in TaskIds :
    (Finished(t) /\ StoreWorked(t) /\ BothPartiesNamed(t)
       /\ Saw(t, "summarize_returned") /\ Saw(t, "analyze_returned")
       /\ Saw(t, "developer_lookup_failed") /\ Saw(t, "offtaker_lookup_failed")) =>
      /\ Row(t).processing_status = Partial
      /\ TASKS[t].status = "partial"
      /\ Truthy(Row(t).summary)
      /\ Truthy(Row(t).risk_flags)
      /\ Contains(Row(t).processing_notes.v, ResearchFailureLine)
      /\ Row(t).developer_external_summary = None
      /\ Row(t).offtaker_external_summary = None

\* positions of process_document behind the two lookups
AfterResearch == {"commit", "publish", "handler", "cleanup", "done"}

ExternalSummary(name) == Str(<<"External summary of ">> \o name.v)

\* C6: entity research is isolated per entity: with both names present, a
\* failed developer lookup does not keep the offtaker lookup from running and
\* storing its result, and a failed offtaker lookup does not discard the
\* developer summary already obtained.
C6_LookupsAreIsolated ==
  \A t \in TaskIds :
    (BothPartiesNamed(t) /\ pc[t] \in AfterResearch) =>
      LET info == locals[t].project_info
          developer == ExternalSummary(info["developer_name"])
          offtaker == ExternalSummary(info["purchaser_or_offtaker"])
      IN  /\ Saw(t, "developer_lookup_failed") =>
               /\ Saw(t, "offtaker_lookup_ran")
               /\ (Saw(t, "offtaker_lookup_found") /\ pc[t] = "commit") =>
                    db_record[t].attrs["offtaker_external_summary"] = offtaker
               /\ (Saw(t, "offtaker_lookup_found") /\ Saw(t, "published")) =>
                    Row(t).offtaker_external_summary = offtaker
          /\ (Saw(t, "offtaker_lookup_failed") /\ Saw(t, "developer_lookup_found")) =>
               /\ pc[t] = "commit" =>
                    db_record[t].attrs["developer_external_summary"] = developer
               /\ Saw(t, "published") =>
                    Row(t).developer_external_summary = developer

C6_Witness ==
  \E t \in TaskIds :
    /\ Finished(t) /\ BothPartiesNamed(t) /\ Saw(t, "published")
    /\ Saw(t, "developer_lookup_failed") /\ Saw(t, "offtaker_lookup_found")
    /\ Row(t).developer_external_summary = None
    /\ Row(t).offtaker_external_summary = Str(<<"External summary of ", "City Utility">>)


\* C7: Completed is reached only if every attempted stage succeeded with no
\* recorded warning: no run in which processing_error_details ends non-empty
\* leaves processing_status = Completed.
C7_CompletedOnlyWithoutWarnings ==
  \A t \in TaskIds :
    /\ (HasRow(t) /\ Row(t).processing_status = Completed) => details[t] = << >>
    /\ (Finished(t) /\ details[t] # << >>) =>
         /\ db_record[t].attrs["processing_status"] # Completed
         /\ HasRow(t) => Row(t).processing_status # Completed

\* a warning recorded behind the point where the status was computed
C7_Witness ==
  \E t \in TaskIds :
    /\ Finished(t) /\ Saw(t, "fetcher_init_raised") /\ Saw(t, "published")
    /\ Contains(details[t][Len(details[t])], ResearchFailureLine)
    /\ Row(t).processing_status = Partial

\* C8: in every reachable state of an analysis record, status Completed
\* implies that processing_notes is empty.
C8_CompletedHasEmptyNotes ==
  \A t \in TaskIds :
    /\ (db_record[t] # None /\ db_record[t].attrs["processing_status"] = Completed) =>
         Empty(db_record[t].attrs["processing_notes"])
    /\ (HasRow(t) /\ Row(t).processing_status = Completed) =>
         Empty(Row(t).processing_notes)

\* the case C8 speaks of: a record whose status is Completed
C8_Case ==
  \E t \in TaskIds :
    \/ db_record[t] # None /\ db_record[t].attrs["processing_status"] = Completed
    \/ HasRow(t) /\ Row(t).processing_status = Completed

StageWarningLines ==
  {ExtractionFailureLine, SummaryFailureLine, RiskFailureLine, ResearchFailureLine}

HasStageWarning(notes) ==
  notes # None /\ \E line \in StageWarningLines : Contains(notes.v, line)

\* C9: whenever Partial / partial is reported, by the persisted record or by
\* the task-status payload, the notes carried with it contain at least one
\* recorded stage-warning line.
C9_PartialCarriesWarning ==
  \A t \in TaskIds :
    /\ (HasRow(t) /\ Row(t).processing_status = Partial) =>
         HasStageWarning(Row(t).processing_notes)
    /\ (t \in DOMAIN TASKS /\ TASKS[t].status = "partial") =>
         HasStageWarning(TASKS[t].processing_notes)

\* partial reported from a warning list that outgrew the committed notes
C9_Witness ==
  \E t \in TaskIds :
    /\ t \in DOMAIN TASKS /\ TASKS[t].status = "partial"
    /\ Saw(t, "fetcher_init_raised")
    /\ Row(t).processing_status = Partial
    /\ TASKS[t].processing_notes = Row(t).processing_notes
    /\ ~Contains(TASKS[t].processing_notes.v, ResearchFailureLine)

RecordStatusOf(task_status) ==
  CASE task_status = "completed" -> Completed
    [] task_status = "partial" -> Partial
    [] task_status = "error" -> Failed

\* C10: TASKS[task_id] never holds a terminal status unless the persisted
\* record has been committed with the corresponding status.
C10_CacheFollowsStore ==
  \A t \in DOMAIN TASKS :
    TASKS[t].status \in TerminalTaskStatus =>
      /\ HasRow(t)
      /\ Row(t).processing_status = RecordStatusOf(TASKS[t].status)
      /\ TASKS[t].analysis_id = db_record[t].id

-----------------------------------------------------------------------------
(* Rule evaluation on its own: RiskFlagger.analyze_project applied to facts *)

\* calls of analyze_project made on the same facts
MaxCalls == 2

\* values of term_length_years (Union[int, str]), capacity_mw and
\* project_area_size the facts can carry
TermLengths ==
  {None, IntVal(10), IntVal(14), IntVal(15), IntVal(20), Str(<<"20">>),
   Str(<<"12.5">>), Str(<<"twenty (20) years">>)}

Capacities ==
  {None, FloatVal(0), FloatVal(1), FloatVal(5), FloatVal(10), FloatVal(20),
   FloatVal(100), FloatVal(500), FloatVal(501)}

AreaSizes ==
  {None, Str(<< >>), Str(<<"600", " Acres">>), Str(<<"100", " acres">>),
   Str(<<"0", " acres">>), Str(<<"ten", " acres">>), Str(<<"1.5.2", " acres">>),
   Str(<<"40", " hectares">>)}

\* the remaining fields: nothing stated, everything stated, a project with
\* environmental concerns, no mitigation, no liquidated damages, seller RECs,
\* and a reply whose fields are present but empty or false
FactsComplete ==
  With(ProjectInfo,
       [project_name |-> Str(<<"Sunrise Solar">>),
        project_type |-> Str(<<"solar">>),
        location_address |-> Str(<<"Kern County">>),
        developer_name |-> Str(<<"Acme Renewables">>),
        purchaser_or_offtaker |-> Str(<<"City Utility">>),
        agreement_type |-> Str(<<"PPA">>),
        key_permits_mentioned |-> List(<< <<"ROW grant">> >>),
        lead_regulatory_agency |-> Str(<<"BLM">>),
        mitigation_mentioned |-> Bool(TRUE),
        liquidated_damages_mention |-> Bool(TRUE),
        environmental_attributes_ownership |-> Str(<<"buyer">>),
        guaranteed_output_or_availability |-> Str(<<"95% availability">>),
        delivery_point |-> Str(<<"substation">>)])

FactsRisky ==
  With(ProjectInfo,
       [project_name |-> Str(<<"Sunrise Solar">>),
        purchaser_or_offtaker |-> Str(<<"City Utility">>),
        key_environmental_concerns |-> List(<< <<"wildlife">>, <<"wetlands">> >>),
        mitigation_mentioned |-> Bool(FALSE),
        liquidated_damages_mention |-> Bool(FALSE),
        environmental_attributes_ownership |-> Str(<<"Seller">>)])

FactsBlank ==
  With(ProjectInfo,
       [project_name |-> Str(<< >>),
        project_type |-> Str(<< >>),
        location_address |-> Str(<< >>),
        developer_name |-> Str(<< >>),
        purchaser_or_offtaker |-> Str(<< >>),
        agreement_type |-> Str(<<"Lease">>),
        lead_regulatory_agency |-> Str(<< >>),
        mitigation_mentioned |-> Bool(FALSE),
        liquidated_damages_mention |-> Bool(TRUE),
        environmental_attributes_ownership |-> Str(<< >>),
        guaranteed_output_or_availability |-> Str(<< >>),
        delivery_point |-> Str(<< >>)])

RuleFacts ==
  {With(profile, [term_length_years |-> term, capacity_mw |-> capacity,
                  project_area_size |-> area]) :
     profile \in {ProjectInfo, FactsComplete, FactsRisky, FactsBlank},
     term \in TermLengths, capacity \in Capacities, area \in AreaSizes}
  \cup {None}

RulesInit ==
  /\ TASKS = << >>
  /\ table = << >>
  /\ files = {}
  /\ pc = [t \in TaskIds |-> "rules"]
  /\ db_record = [t \in TaskIds |-> None]
  /\ details = [t \in TaskIds |-> << >>]
  /\ trace = [t \in TaskIds |-> {}]
  /\ client = [t \in TaskIds |-> PollLocals]
  /\ \E facts \in RuleFacts :
       locals = [t \in TaskIds |-> [project_info |-> facts, calls |-> << >>]]

\* risk_flagger.analyze_project(project_info), its outcome kept
EvaluateRules(t) ==
  /\ pc[t] = "rules"
  /\ UNCHANGED client
  /\ Len(locals[t].calls) < MaxCalls
  /\ locals' = [locals EXCEPT ![t].calls =
                  Append(@, analyze_project(locals[t].project_info))]
  /\ UNCHANGED <<TASKS, table, files, pc, db_record, details, trace>>

RulesNext == EvaluateRules("t1")

RulesSpec == RulesInit /\ [][RulesNext]_vars

\* C12: rule evaluation is total: analyze_project never raises, whatever
\* term_length_years and project_area_size the facts carry.
C12_RuleEvaluationIsTotal ==
  \A t \in TaskIds :
    \A i \in 1..Len(locals[t].calls) : ~locals[t].calls[i].raised

\* the rule a flag comes from (1 PPA term, 2 size and density, 3 missing
\* critical info, 4 environmental / permitting, 5 contract) and its place
\* inside the rule, read from the text the flag starts with
FlagRule(flag) ==
  LET head == flag[1]
  IN  CASE head = "SHORT PPA TERM: PPA term length is " -> 1
        [] head \in {"SMALL PROJECT: Project capacity is only ",
                     "MEDIUM-SMALL PROJECT: Project capacity is ",
                     "LARGE PROJECT: Project capacity is ",
                     "LOW DENSITY: Project density is "} -> 2
        [] head = "MISSING INFO: " -> 3
        [] head \in {"ENVIRONMENTAL CONCERN: ",
                     "HIGH RISK - NO MITIGATION: Environmental concerns exist but mitigation measures are not mentioned",
                     "PERMITTING RISK: No specific permits or approvals are mentioned",
                     "REGULATORY RISK: Lead regulatory agency is not identified"} -> 4
        [] OTHER -> 5

FlagPlace(flag) ==
  LET head == flag[1]
  IN  CASE head = "LOW DENSITY: Project density is " -> 2
        [] head = "MISSING INFO: " ->
             CHOOSE i \in 1..Len(critical_fields) : critical_fields[i][2] = flag[2]
        [] head = "ENVIRONMENTAL CONCERN: " -> 1
        [] head = "HIGH RISK - NO MITIGATION: Environmental concerns exist but mitigation measures are not mentioned" -> 2
        [] head = "PERMITTING RISK: No specific permits or approvals are mentioned" -> 3
        [] head = "REGULATORY RISK: Lead regulatory agency is not identified" -> 4
        [] head = "CONTRACT RISK: Liquidated damages provisions are not mentioned, which may affect project's risk allocation" -> 1
        [] head \in {"UNCLEAR REC OWNERSHIP: Environmental attributes (RECs) ownership is not specified",
                     "REC OWNERSHIP NOTE: Seller retains environmental attributes, which may affect project economics"} -> 2
        [] head = "PERFORMANCE RISK: No guaranteed output or availability metrics specified" -> 3
        [] head = "DELIVERY RISK: Power delivery point is not specified" -> 4
        [] OTHER -> 1

\* flags in rule-definition order; only the environmental concerns, listed in
\* the order of the facts, share a place
InRuleOrder(flags, project_info) ==
  /\ \A i, j \in 1..Len(flags) :
       i < j =>
         \/ FlagRule(flags[i]) < FlagRule(flags[j])
         \/ /\ FlagRule(flags[i]) = FlagRule(flags[j])
            /\ \/ FlagPlace(flags[i]) < FlagPlace(flags[j])
               \/ flags[i][1] = "ENVIRONMENTAL CONCERN: " /\ flags[j][1] = "ENVIRONMENTAL CONCERN: "
  /\ LET concerns == project_info.key_environmental_concerns.v
         first == CHOOSE k \in 0..Len(flags) :
                    /\ \A i \in 1..k : flags[i][1] # "ENVIRONMENTAL CONCERN: "
                    /\ k = Len(flags) \/ flags[k + 1][1] = "ENVIRONMENTAL CONCERN: "
     IN  \A c \in 1..Len(concerns) :
           /\ first + c <= Len(flags)
           /\ flags[first + c] = <<"ENVIRONMENTAL CONCERN: ">> \o concerns[c]

-----------------------------------------------------------------------------
(* Several submissions in flight *)

\* the steps of submission t, on one document text and one set of facts
ConcurrentStep(t) ==
  \/ upload_document(t, ".pdf")
  \/ \E outcome \in StoreOutcomes : CreateRecord(t, outcome)
  \/ \E read \in {[kind |-> "text", text |-> Text(120)], [kind |-> "error"]} :
       LoadDocument(t, read)
  \/ Construct(t, TRUE, TRUE)
  \/ \E outcome \in {[kind |-> "reply", content |-> ReplyOf(FactsShortPPA)], [kind |-> "api_error"]} :
       ExtractInfo(t, outcome)
  \/ Summarize(t, "summary")
  \/ AnalyzeRisks(t)
  \/ UpdateRecord(t)
  \/ StartResearch(t, TRUE)
  \/ \E outcome \in {"exception", "summary"} : FetchDeveloper(t, outcome)
  \/ FetchOfftaker(t, "summary")
  \/ \E outcome \in StoreOutcomes : CommitResults(t, outcome)
  \/ Publish(t)
  \/ \E outcome \in CommitOutcomes : HandleFailure(t, outcome)
  \/ Cleanup(t)

\* the background tasks of all submissions, interleaved step by step
ConcurrentNext == \E t \in TaskIds : ConcurrentStep(t)

ConcurrentSpec == Init /\ [][ConcurrentNext]_vars

\* what belongs to submission t: its cache entry, its object and row, its
\* local variables and its file
OwnState(t) ==
  [entry |-> IF t \in DOMAIN TASKS THEN TASKS[t] ELSE None,
   record |-> db_record[t],
   row |-> IF HasRow(t) /\ db_record[t].id.v <= Len(table) THEN Row(t) ELSE None,
   details |-> details[t],
   locals |-> locals[t],
   file |-> t \in files]

Moved(t) == pc'[t] # pc[t] \/ trace'[t] # trace[t]

\* C14: concurrent submissions are isolated: in any interleaving a run reads
\* and writes only its own TASKS entry and its own record; the steps of the
\* other runs leave them alone, the records of two runs are different rows,
\* and the published payload and the committed row are those the run computed
\* from its own local state.
C14_SubmissionsAreIsolated ==
  /\ [](\A t \in TaskIds :
          /\ HasRow(t) =>
               /\ Row(t).original_filename = Str(<<t>> \o locals[t].ext.v)
               /\ \A u \in TaskIds \ {t} : HasRow(u) => db_record[u].id # db_record[t].id
          /\ Saw(t, "published") =>
               /\ TASKS[t] = ResultPayload(db_record[t], details[t], locals[t].project_info,
                                           locals[t].summary, locals[t].risk_flags)
               /\ Row(t) = db_record[t].attrs
          /\ Saw(t, "handled") =>
               /\ TASKS[t] = ErrorPayload(db_record[t], locals[t].error_msg)
               /\ HasRow(t) => Row(t) = db_record[t].attrs)
  /\ [][\A t \in TaskIds : ~Moved(t) => OwnState(t)' = OwnState(t)]_vars

\* both runs in flight at once, the later upload's record created first
C14_Witness ==
  /\ pc["t1"] = "commit" /\ pc["t2"] = "offtaker"
  /\ db_record["t2"].id = IntVal(1) /\ db_record["t1"].id = IntVal(2)
  /\ Saw("t1", "developer_lookup_failed") /\ Saw("t2", "developer_lookup_found")

-----------------------------------------------------------------------------
(* Properties of the upload and of the stored record *)

\* C15: upload_document rejects any file whose lower-cased extension is not
\* one of .pdf, .docx, .doc with an error before the pipeline is invoked: on
\* rejection no file is written, no TASKS entry is created and no
\* process_document task is scheduled.
C15_RejectedBeforePipeline ==
  \A t \in TaskIds :
    LET file_extension == locals[t].ext
    IN  /\ (file_extension # None /\ file_extension.v[1] \notin {".pdf", ".docx", ".doc"}) =>
             /\ Saw(t, "http_400")
             /\ pc[t] = "rejected"
             /\ t \notin files
             /\ t \notin DOMAIN TASKS
             /\ db_record[t] = None
             /\ table = << >>
        /\ Saw(t, "http_400") =>
             file_extension.v[1] \notin {".pdf", ".docx", ".doc"}

C15_Witness ==
  \E t \in TaskIds :
    /\ locals[t].ext = Str(<<".txt">>)
    /\ Saw(t, "http_400")
    /\ t \notin DOMAIN TASKS /\ t \notin files

\* get_analysis (GET /analyses/{analysis_id}); created_at is left out
get_analysis(tbl, analysis_id) ==
  IF analysis_id \notin 1..Len(tbl) THEN Raise(<<"Analysis not found">>)
  ELSE
    LET analysis == LoadRow(tbl[analysis_id])
    IN  Return(
          [id |-> IntVal(analysis_id),
           metadata |-> [filename |-> analysis.original_filename,
                         status |-> analysis.processing_status,
                         processing_notes |-> analysis.processing_notes],
           project_info |-> [name |-> analysis.project_name,
                             type |-> analysis.project_type,
                             capacity_mw |-> analysis.capacity_mw,
                             location |-> analysis.location_address,
                             area_size |-> analysis.project_area_size,
                             technology |-> analysis.technology_details,
                             units |-> analysis.number_of_units],
           parties |-> [developer |->
                          IF Truthy(analysis.developer_name)
                          THEN [name |-> analysis.developer_name,
                                external_summary |-> analysis.developer_external_summary]
                          ELSE None,
                        offtaker |->
                          IF Truthy(analysis.purchaser_or_offtaker)
                          THEN [name |-> analysis.purchaser_or_offtaker,
                                external_summary |-> analysis.offtaker_external_summary]
                          ELSE None,
                        provider |-> analysis.seller_or_provider,
                        counterparties |-> analysis.key_counterparties],
           ppa_terms |-> [agreement_type |-> analysis.agreement_type,
                          effective_date |-> analysis.agreement_effective_date,
                          term_years |-> analysis.term_length_years,
                          price_details |-> analysis.contract_price_details,
                          guaranteed_output |-> analysis.guaranteed_output_or_availability,
                          liquidated_damages |-> analysis.liquidated_damages_mention,
                          delivery_point |-> analysis.delivery_point,
                          environmental_attributes |-> analysis.environmental_attributes_ownership],
           environmental |-> [agency |-> analysis.lead_regulatory_agency,
                              assessment_type |-> analysis.assessment_type,
                              permits |-> analysis.key_permits_mentioned,
                              concerns |-> analysis.key_environmental_concerns,
                              mitigation_mentioned |-> analysis.mitigation_mentioned],
           dates |-> analysis.key_project_dates,
           analysis_results |-> [summary |-> analysis.summary,
                                 risk_flags |-> analysis.risk_flags]])

\* where the response of get_analysis carries a fact field
Retrieved(response, field) ==
  CASE field = "project_name" -> response.project_info.name
    [] field = "project_type" -> response.project_info.type
    [] field = "capacity_mw" -> response.project_info.capacity_mw
    [] field = "location_address" -> response.project_info.location
    [] field = "project_area_size" -> response.project_info.area_size
    [] field = "technology_details" -> response.project_info.technology
    [] field = "number_of_units" -> response.project_info.units
    [] field = "developer_name" ->
         IF response.parties.developer = None THEN None
         ELSE response.parties.developer.name
    [] field = "purchaser_or_offtaker" ->
         IF response.parties.offtaker = None THEN None
         ELSE response.parties.offtaker.name
    [] field = "seller_or_provider" -> response.parties.provider
    [] field = "key_counterparties" -> response.parties.counterparties
    [] field = "agreement_type" -> response.ppa_terms.agreement_type
    [] field = "agreement_effective_date" -> response.ppa_terms.effective_date
    [] field = "term_length_years" -> response.ppa_terms.term_years
    [] field = "contract_price_details" -> response.ppa_terms.price_details
    [] field = "guaranteed_output_or_availability" -> response.ppa_terms.guaranteed_output
    [] field = "liquidated_damages_mention" -> response.ppa_terms.liquidated_damages
    [] field = "delivery_point" -> response.ppa_terms.delivery_point
    [] field = "environmental_attributes_ownership" -> response.ppa_terms.environmental_attributes
    [] field = "lead_regulatory_agency" -> response.environmental.agency
    [] field = "assessment_type" -> response.environmental.assessment_type
    [] field = "key_permits_mentioned" -> response.environmental.permits
    [] field = "key_environmental_concerns" -> response.environmental.concerns
    [] field = "mitigation_mentioned" -> response.environmental.mitigation_mentioned
    [] field = "key_project_dates" -> response.dates

\* a == b of Python: an int and a float are equal when their values are
PyEq(a, b) ==
  IF a.kind \in {"int", "float"} /\ b.kind \in {"int", "float"} THEN a.v = b.v ELSE a = b

\* the warnings as they were when status and notes were written (line 78)
DetailsAtUpdate(t) ==
  SelectSeq(details[t], LAMBDA line : line[1] # ResearchFailureLine[1])

\* C16: round trip through the store: once process_document has committed its
\* results, get_analysis for the record id returns the status, the notes and
\* every fact field as they were written, the list-typed fields and a
\* term_length_years given as an int or as a str included (a party without a
\* name is retrieved as no party).
C16_StoreRoundTrip ==
  \A t \in TaskIds :
    Saw(t, "published") =>
      LET result == get_analysis(table, db_record[t].id.v)
          response == result.value
          project_info == locals[t].project_info
      IN  /\ ~result.raised
          /\ response.metadata.status = FinalStatus(DetailsAtUpdate(t))
          /\ response.metadata.processing_notes = FinalNotes(DetailsAtUpdate(t))
          /\ response.analysis_results.risk_flags = locals[t].risk_flags
          /\ project_info # None =>
               \A field \in direct_fields :
                 IF field \in {"developer_name", "purchaser_or_offtaker"}
                      /\ ~Truthy(project_info[field])
                 THEN Retrieved(response, field) = None
                 ELSE PyEq(Retrieved(response, field), project_info[field])

\* positions of process_document at which a stage is about to run or has run
StagePositions ==
  {"load", "construct", "extract", "summarize", "analyze", "update", "research",
   "developer", "offtaker", "commit", "publish"}

\* C17: the persisted status follows Processing -> {Completed, Partial,
\* Failed}: the record is committed with status Processing before any stage
\* runs, the only committed transitions lead from Processing to a terminal
\* status, and a committed terminal status is never overwritten.
C17_StatusStateMachine ==
  /\ [](\A t \in TaskIds : pc[t] \in StagePositions => HasRow(t))
  /\ [][/\ Len(table') >= Len(table)
        /\ \A i \in 1..Len(table') :
             IF i > Len(table)
             THEN table'[i].processing_status = Processing
             ELSE table'[i].processing_status # table[i].processing_status =>
                    /\ table[i].processing_status = Processing
                    /\ table'[i].processing_status \in TerminalRecordStatus]_vars

\* C18: a record whose committed status is Failed carries the terminating
\* error in processing_notes and has no downstream stage field populated
\* (summary, risk_flags, fact fields, external summaries), also when the
\* failure is raised after the stage outputs were assigned to the record.
C18_FailedRecordIsBare ==
  \A t \in TaskIds :
    (HasRow(t) /\ Row(t).processing_status = Failed) =>
      /\ Row(t).processing_notes = locals[t].error_msg
      /\ \A c \in StageColumns : Empty(Row(t)[c])

\* the warnings recorded for one stage, by the text its lines start with
LinesFor(t, prefix) ==
  Len(SelectSeq(details[t], LAMBDA line : line[1] = prefix[1]))

\* C19: each non-fatal stage that fails (fact extraction, a model reply that
\* cannot be parsed into facts included; summarization; rule evaluation;
\* entity research) contributes exactly one line to the persisted notes and
\* leaves the output of that stage empty, without aborting the pipeline.
C19_OneLinePerFailedStage ==
  \A t \in TaskIds :
    /\ (Finished(t) /\ StoreWorked(t) /\ TextExtracted(t)
          /\ ~Saw(t, "extractor_init_raised") /\ ~Saw(t, "summarizer_init_raised")) =>
         Saw(t, "published")
    /\ Saw(t, "published") =>
         LET notes == Row(t).processing_notes
         IN  /\ (Saw(t, "extract_raised") \/ Saw(t, "response_unparsable")) =>
                  /\ LinesFor(t, ExtractionFailureLine) = 1
                  /\ Contains(notes.v, ExtractionFailureLine)
                  /\ \A field \in direct_fields : Empty(Row(t)[field])
             /\ (Saw(t, "summarize_raised") \/ Saw(t, "content_raised")) =>
                  /\ LinesFor(t, SummaryFailureLine) = 1
                  /\ Contains(notes.v, SummaryFailureLine)
                  /\ Empty(Row(t).summary)
             /\ Saw(t, "analyze_raised") =>
                  /\ LinesFor(t, RiskFailureLine) = 1
                  /\ Contains(notes.v, RiskFailureLine)
                  /\ Empty(Row(t).risk_flags)
             /\ (Saw(t, "fetcher_init_raised") \/ Saw(t, "developer_lookup_failed")
                   \/ Saw(t, "offtaker_lookup_failed")) =>
                  /\ LinesFor(t, ResearchFailureLine) = 1
                  /\ Contains(notes.v, ResearchFailureLine)
             /\ Saw(t, "fetcher_init_raised") =>
                  /\ Empty(Row(t).developer_external_summary)
                  /\ Empty(Row(t).offtaker_external_summary)
             /\ Saw(t, "developer_lookup_failed") => Empty(Row(t).developer_external_summary)
             /\ Saw(t, "offtaker_lookup_failed") => Empty(Row(t).offtaker_external_summary)

\* C20: when fact extraction produced no facts (project_info is None after a
\* failed extraction), rule evaluation is skipped entirely: risk_flags is the
\* empty list, analyze_project is not applied, and the skip adds no line of
\* its own to the notes; only the fact-extraction failure is recorded.
C20_NoFactsNoRuleEvaluation ==
  \A t \in TaskIds :
    (Saw(t, "extract_raised") /\ pc[t] \in AfterAnalysis) =>
      /\ locals[t].project_info = None
      /\ locals[t].risk_flags = List(<< >>)
      /\ ~Saw(t, "analyze_returned") /\ ~Saw(t, "analyze_raised")
      /\ LinesFor(t, RiskFailureLine) = 0
      /\ LinesFor(t, ExtractionFailureLine) = 1
      /\ \A i \in 1..Len(details[t]) :
           details[t][i][1] \in {ExtractionFailureLine[1], SummaryFailureLine[1]}
      /\ Saw(t, "published") =>
           /\ Row(t).risk_flags = List(<< >>)
           /\ TASKS[t].risk_flags = List(<< >>)
           /\ Row(t).processing_notes = Str(JoinNotes(details[t]))

C20_Witness ==
  \E t \in TaskIds :
    /\ Finished(t) /\ Saw(t, "extract_raised") /\ Saw(t, "published")
    /\ Row(t).risk_flags = List(<< >>)
    /\ Contains(Row(t).processing_notes.v, ExtractionFailureLine)
    /\ ~Contains(Row(t).processing_notes.v, RiskFailureLine)

-----------------------------------------------------------------------------
(* Properties of the single rules *)

\* the text the SHORT PPA TERM flag starts with, and the flags of a list that
\* start with a given text
TermFlagHead == "SHORT PPA TERM: PPA term length is "

FlagsStarting(flags, head) == {i \in 1..Len(flags) : flags[i][1] = head}

\* the literals float() reads as a number, among the values of TermLengths
NumericLiterals == {ToString(n) : n \in 0..MaxLiteral} \cup {"12.5"}

NotNumeric(x) ==
  x.kind = "str" /\ ~(Len(x.v) = 1 /\ x.v[1] \in NumericLiterals)

\* C21: on a term_length_years that is not numeric (such as
\* 'twenty (20) years') the less-than-15 check neither triggers nor raises:
\* analyze_project returns, with no SHORT PPA TERM flag and with the flags of
\* all the other checks.
C21_NonNumericTermIsSkipped ==
  \A t \in TaskIds :
    LET project_info == locals[t].project_info
        calls == locals[t].calls
    IN  \A i \in 1..Len(calls) :
          (project_info # None /\ NotNumeric(project_info.term_length_years)
             /\ ~_check_project_size(project_info).raised) =>
            /\ ~calls[i].raised
            /\ FlagsStarting(calls[i].value, TermFlagHead) = {}
            /\ calls[i].value =
                 _check_project_size(project_info).value
                   \o _check_missing_critical_info(project_info)
                   \o _check_environmental_risks(project_info)
                   \o _check_contract_risks(project_info)

\* the absence checks outside critical_fields: the field and the flag raised
\* on it
AbsenceChecks ==
  { <<"lead_regulatory_agency",
      <<"REGULATORY RISK: Lead regulatory agency is not identified">> >>,
    <<"environmental_attributes_ownership",
      <<"UNCLEAR REC OWNERSHIP: Environmental attributes (RECs) ownership is not specified">> >>,
    <<"guaranteed_output_or_availability",
      <<"PERFORMANCE RISK: No guaranteed output or availability metrics specified">> >>,
    <<"delivery_point",
      <<"DELIVERY RISK: Power delivery point is not specified">> >> }
    \cup { <<critical_fields[i][1],
             <<"MISSING INFO: ", critical_fields[i][2], " is not specified">> >> :
           i \in 1..Len(critical_fields) }

Flagged(flags, flag) == \E i \in 1..Len(flags) : flags[i] = flag

\* C22: an absence check triggers exactly on a null field: a value that is
\* present but falsy (false, 0, the empty string) raises no 'not specified' /
\* 'not identified' / MISSING INFO flag, and a null value does.
C22_AbsenceMeansNull ==
  \A t \in TaskIds :
    LET project_info == locals[t].project_info
        calls == locals[t].calls
    IN  \A i \in 1..Len(calls) :
          (project_info # None /\ ~calls[i].raised) =>
            \A check \in AbsenceChecks :
              Flagged(calls[i].value, check[2]) <=> project_info[check[1]] = None

\* the flags satisfied by absence: the absence checks and the empty permit list
PermittingFlag == <<"PERMITTING RISK: No specific permits or approvals are mentioned">>

AbsenceFlags == {check[2] : check \in AbsenceChecks} \cup {PermittingFlag}

\* C23: on facts with no populated field (ProjectInfo()) analyze_project
\* returns the flags satisfied by absence, each once, and no flag gated on a
\* field being present (SHORT PPA TERM, size, density, ENVIRONMENTAL CONCERN,
\* NO MITIGATION, CONTRACT RISK, REC OWNERSHIP NOTE).
C23_EmptyFactsOnlyAbsenceFlags ==
  \A t \in TaskIds :
    LET calls == locals[t].calls
    IN  \A i \in 1..Len(calls) :
          locals[t].project_info = ProjectInfo =>
            /\ ~calls[i].raised
            /\ {calls[i].value[k] : k \in 1..Len(calls[i].value)} = AbsenceFlags
            /\ Len(calls[i].value) = Cardinality(AbsenceFlags)

C23_Witness ==
  \E t \in TaskIds :
    /\ locals[t].project_info = ProjectInfo
    /\ Len(locals[t].calls) > 0
    /\ Len(locals[t].calls[1].value) = 13

\* C24: on facts whose term_length_years is an integer n, the list
\* analyze_project returns holds exactly one term-length flag, whose text
\* carries n, when n < 15, and none when n >= 15 (15 does not trigger); the
\* term check itself never fails on an integer.
C24_ShortTermFlaggedOnce ==
  \A t \in TaskIds :
    LET project_info == locals[t].project_info
        calls == locals[t].calls
    IN  \A i \in 1..Len(calls) :
          (project_info # None /\ project_info.term_length_years.kind = "int") =>
            LET n == project_info.term_length_years.v
            IN  IF calls[i].raised
                THEN calls[i].err = <<"float division by zero">>
                ELSE LET flags == calls[i].value
                         term_flags == FlagsStarting(flags, TermFlagHead)
                     IN  IF n < 15
                         THEN /\ term_flags = {1}
                              /\ flags[1] = <<TermFlagHead, ToString(n),
                                              " years, which is below the typical 15-year threshold">>
                         ELSE term_flags = {}

\* a returned list with the flag for n = 14
C24_Witness ==
  \E t \in TaskIds :
    /\ locals[t].project_info # None
    /\ locals[t].project_info.term_length_years = IntVal(14)
    /\ Len(locals[t].calls) > 0
    /\ ~locals[t].calls[1].raised
    /\ locals[t].calls[1].value[1][2] = "14"

\* an agreement_type that names a power purchase agreement
IsPPA(agreement_type) ==
  agreement_type.kind = "str" /\ Contains(Lower(agreement_type.v), <<"ppa">>)

\* C25: the checks scoped to power-purchase-agreement terms do not fire on
\* facts whose agreement_type is absent or does not contain 'ppa' (in any
\* case): no SHORT PPA TERM flag is returned for them, even when
\* term_length_years < 15.
C25_PPAChecksOnlyOnPPA ==
  \A t \in TaskIds :
    LET project_info == locals[t].project_info
        calls == locals[t].calls
    IN  \A i \in 1..Len(calls) :
          (project_info # None /\ ~calls[i].raised
             /\ ~IsPPA(project_info.agreement_type)) =>
            FlagsStarting(calls[i].value, TermFlagHead) = {}

NoMitigationFlag ==
  <<"HIGH RISK - NO MITIGATION: Environmental concerns exist but mitigation measures are not mentioned">>

DensityFlagHead == "LOW DENSITY: Project density is "

\* C26: a check that depends on another field is absent from the output when
\* that field is null or empty, whatever its own condition: no NO MITIGATION
\* flag when key_environmental_concerns is empty (even with
\* mitigation_mentioned false), no LOW DENSITY flag when capacity_mw is null
\* (even with a project_area_size).
C26_GatedChecksNeedTheirField ==
  \A t \in TaskIds :
    LET project_info == locals[t].project_info
        calls == locals[t].calls
    IN  \A i \in 1..Len(calls) :
          (project_info # None /\ ~calls[i].raised) =>
            /\ ~Truthy(project_info.key_environmental_concerns) =>
                 ~Flagged(calls[i].value, NoMitigationFlag)
            /\ project_info.capacity_mw = None =>
                 FlagsStarting(calls[i].value, DensityFlagHead) = {}

\* mitigation_mentioned false without concerns, an area without a capacity
C26_Witness ==
  \E t \in TaskIds :
    /\ locals[t].project_info # None
    /\ locals[t].project_info.key_environmental_concerns = List(<< >>)
    /\ locals[t].project_info.mitigation_mentioned = Bool(FALSE)
    /\ locals[t].project_info.capacity_mw = None
    /\ locals[t].project_info.project_area_size = Str(<<"600", " Acres">>)
    /\ Len(locals[t].calls) > 0
    /\ ~locals[t].calls[1].raised

SmallHead == "SMALL PROJECT: Project capacity is only "
MediumSmallHead == "MEDIUM-SMALL PROJECT: Project capacity is "
LargeHead == "LARGE PROJECT: Project capacity is "

\* the texts the size flags of a list start with
SizeHeads(flags) ==
  {flags[k][1] : k \in FlagsStarting(flags, SmallHead)
                         \cup FlagsStarting(flags, MediumSmallHead)
                         \cup FlagsStarting(flags, LargeHead)}

\* C30: _check_project_size contributes at most one size flag, by bands:
\* SMALL below 5, MEDIUM-SMALL from 5 to below 20, none from 20 to 500, LARGE
\* above 500; at most one LOW DENSITY flag beside it; and nothing at all
\* when capacity_mw is null.
C30_SizeBands ==
  \A t \in TaskIds :
    LET project_info == locals[t].project_info
        calls == locals[t].calls
    IN  \A i \in 1..Len(calls) :
          (project_info # None /\ ~calls[i].raised) =>
            LET flags == calls[i].value
                capacity == project_info.capacity_mw
                size_flags == FlagsStarting(flags, SmallHead)
                                \cup FlagsStarting(flags, MediumSmallHead)
                                \cup FlagsStarting(flags, LargeHead)
            IN  /\ Cardinality(size_flags) <= 1
                /\ Cardinality(FlagsStarting(flags, DensityFlagHead)) <= 1
                /\ SizeHeads(flags) =
                     (IF capacity = None THEN {}
                      ELSE IF capacity.v < 5 THEN {SmallHead}
                      ELSE IF capacity.v < 20 THEN {MediumSmallHead}
                      ELSE IF capacity.v <= 500 THEN {}
                      ELSE {LargeHead})
                /\ capacity = None => FlagsStarting(flags, DensityFlagHead) = {}

\* a small project on a large area: the SMALL flag and the LOW DENSITY flag
C30_Witness ==
  \E t \in TaskIds :
    /\ locals[t].project_info # None
    /\ locals[t].project_info.capacity_mw = FloatVal(1)
    /\ Len(locals[t].calls) > 0
    /\ ~locals[t].calls[1].raised
    /\ SizeHeads(locals[t].calls[1].value) = {SmallHead}
    /\ FlagsStarting(locals[t].calls[1].value, DensityFlagHead) # {}

-----------------------------------------------------------------------------
(* Parsing on its own: ProjectInfo.parse_response applied to a model reply *)

\* JSON objects a reply can carry: scalar fields only, all list fields, a null
\* list, a value of the wrong type, whitespace and control characters inside
\* a string, numbers as strings, a key that is no field, one list of four
BodyScalars ==
  [project_name |-> Str(<<"Sunrise Solar">>),
   capacity_mw |-> IntVal(50),
   term_length_years |-> Str(<<"20">>)]

BodyWithLists ==
  [project_name |-> Str(<<"Sunrise Solar">>),
   capacity_mw |-> IntVal(50),
   key_counterparties |-> List(<< >>),
   key_permits_mentioned |-> List(<< <<"ROW grant">> >>),
   key_environmental_concerns |-> List(<< <<"wildlife">> >>),
   key_project_dates |-> List(<< >>)]

BodyNullList ==
  [project_name |-> Str(<<"Sunrise Solar">>),
   key_counterparties |-> None]

BodyBadCapacity ==
  [project_name |-> Str(<<"Sunrise Solar">>),
   capacity_mw |-> Str(<<"about fifty">>)]

BodySpaced ==
  [project_name |-> Str(<<"Sunrise", "  ", "Solar", "\\x07">>),
   liquidated_damages_mention |-> Bool(FALSE)]

BodyNumbers ==
  [term_length_years |-> IntVal(20),
   number_of_units |-> Str(<<"12">>),
   capacity_mw |-> Str(<<"50">>)]

BodyExtraKey ==
  [project_type |-> Str(<<"solar">>),
   confidence |-> Str(<<"high">>)]

BodyOneList ==
  [developer_name |-> Str(<<"Acme Renewables">>),
   key_project_dates |-> List(<< <<"2025-12-31">> >>)]

ReplyObjects ==
  { <<OpenBrace, CloseBrace>> }
    \cup {ReplyOf(data) : data \in {BodyScalars, BodyWithLists, BodyNullList,
                                     BodyBadCapacity, BodySpaced, BodyNumbers,
                                     BodyExtraKey, BodyOneList}}
    \cup {ReplyOf(info) : info \in PipelineFacts}

\* text before and after the object; the text itself may hold braces
ReplyPrefixes ==
  { << >>,
    <<ReplyText("Here is the extracted information: ")>>,
    <<ReplyText("Using the schema "), OpenBrace, ReplyText("fields"), CloseBrace,
      ReplyText(": ")>> }

ReplySuffixes == { << >>, <<ReplyText(" Let me know if you need anything else.")>> }

\* the replies: an object inside text, text only, an object cut off by
\* max_tokens
Replies ==
  {prefix \o object \o suffix :
     prefix \in ReplyPrefixes, object \in ReplyObjects, suffix \in ReplySuffixes}
    \cup {ReplyNotJSON, <<OpenBrace, Members(BodyScalars)>>}

ParseInit ==
  /\ TASKS = << >>
  /\ table = << >>
  /\ files = {}
  /\ pc = [t \in TaskIds |-> "parse"]
  /\ db_record = [t \in TaskIds |-> None]
  /\ details = [t \in TaskIds |-> << >>]
  /\ trace = [t \in TaskIds |-> {}]
  /\ client = [t \in TaskIds |-> PollLocals]
  /\ \E content \in Replies :
       locals = [t \in TaskIds |-> [content |-> content, parsed |-> << >>]]

\* ProjectInfo.parse_response(response.content[0].text), its result kept
ParseResponse(t) ==
  /\ pc[t] = "parse"
  /\ UNCHANGED client
  /\ locals' = [locals EXCEPT ![t].parsed = <<parse_response(locals[t].content)>>]
  /\ Goto(t, "parsed")
  /\ UNCHANGED <<TASKS, table, files, db_record, details, trace>>

ParseNext == ParseResponse("t1")

ParseSpec == ParseInit /\ [][ParseNext]_vars

\* the members of the JSON object of a reply made of text without braces, one
\* object, and text without braces
HasOneObject(content) ==
  \E o \in 1..Len(content) :
    /\ content[o] = OpenBrace
    /\ \A k \in 1..Len(content) : content[k] = OpenBrace => k = o
    /\ \E c \in {o + 1, o + 2} :
         /\ c <= Len(content)
         /\ content[c] = CloseBrace
         /\ \A k \in 1..Len(content) : content[k] = CloseBrace => k = c
         /\ c = o + 2 => content[o + 1].t = "members"

ObjectOf(content) ==
  LET o == CHOOSE o \in 1..Len(content) : content[o] = OpenBrace
  IN  IF content[o + 1] = CloseBrace THEN << >> ELSE content[o + 1].data

\* the value a field takes from a JSON value that fits its declared type
Fits(field, value) == ~Validate(field, CleanValue(value)).raised

FieldValue(field, value) == Validate(field, CleanValue(value)).value

\* C27: parse_response isolates the outermost {...} object of a reply with
\* text around it and defaults the list fields: in every ProjectInfo it
\* returns the four list fields are lists, never null; and when the object
\* leaves a list field out, the scalar fields it states are kept and the
\* list fields left out are empty lists.
C27_ParseIsolatesAndDefaults ==
  \A t \in TaskIds :
    \A i \in 1..Len(locals[t].parsed) :
      LET content == locals[t].content
          project_info == locals[t].parsed[i]
      IN  /\ \A f \in ListFields : project_info[f].kind = "list"
          /\ HasOneObject(content) =>
               LET data == ObjectOf(content)
                   given == DOMAIN data \cap direct_fields
               IN  ((\E f \in ListFields : f \notin given)
                      /\ \A f \in given : Fits(f, data[f])) =>
                     /\ \A f \in given \ ListFields :
                          project_info[f] = FieldValue(f, data[f])
                     /\ \A f \in ListFields \ given : project_info[f] = List(<< >>)

\* an object with scalar fields only, between two pieces of text
C27_Witness ==
  \E t \in TaskIds :
    /\ pc[t] = "parsed"
    /\ locals[t].content =
         <<ReplyText("Here is the extracted information: "), OpenBrace,
           Members(BodyScalars), CloseBrace,
           ReplyText(" Let me know if you need anything else.")>>
    /\ locals[t].parsed[1].project_name = Str(<<"Sunrise Solar">>)
    /\ locals[t].parsed[1].capacity_mw = FloatVal(50)
    /\ locals[t].parsed[1].key_permits_mentioned = List(<< >>)

-----------------------------------------------------------------------------
(* The client: streamlit_app.poll_status against GET /status/{task_id} *)

max_retries == 180

\* requests.get: a 200 response, another status code, or an exception
HttpOutcomes == {"ok", "not_ok", "connection_error"}

\* endpoints.get_task_status: the TASKS entry, or HTTP 404
get_task_status(tasks, task_id) ==
  IF task_id \in DOMAIN tasks THEN Return(tasks[task_id])
  ELSE Raise(<<"Task not found">>)

\* one pass of the loop of poll_status (lines 149-160), called with the
\* task_id of an accepted upload
Poll(t, http) ==
  /\ t \in DOMAIN TASKS
  /\ client[t].at = "request"
  /\ client[t].retry_count < max_retries
  /\ LET response == get_task_status(TASKS, t)
     IN  client' = [client EXCEPT ![t] =
           IF http = "connection_error"
           THEN [@ EXCEPT !.at = "raised",
                          !.raised = <<"Error checking status: ", "connection error">>]
           ELSE IF http = "ok" /\ ~response.raised
           THEN LET status == response.value
                IN  IF status.status = "completed"
                    THEN [@ EXCEPT !.at = "returned", !.status = status]
                    ELSE IF status.status = "error"
                    THEN [@ EXCEPT !.at = "raised", !.status = status,
                                   !.raised = <<"Error checking status: ">> \o status.message.v]
                    ELSE [@ EXCEPT !.status = status, !.retry_count = @ + 1]
           ELSE [@ EXCEPT !.retry_count = @ + 1]]
  /\ UNCHANGED <<TASKS, table, files, pc, db_record, details, locals, trace>>

\* line 162: the loop ended without a return
PollTimeout(t) ==
  /\ client[t].at = "request"
  /\ client[t].retry_count >= max_retries
  /\ client' = [client EXCEPT ![t].at = "raised",
                              ![t].raised = <<"Processing timeout after 30 minutes">>]
  /\ UNCHANGED <<TASKS, table, files, pc, db_record, details, locals, trace>>

\* one submission and the client polling for it
ClientNext ==
  \/ ConcurrentStep("t1")
  \/ \E http \in HttpOutcomes : Poll("t1", http)
  \/ PollTimeout("t1")

ClientSpec == Init /\ [][ClientNext]_vars

\* C28: the polling client stops on every terminal task status: once the
\* status endpoint has answered completed, partial or error, poll_status has
\* returned or raised and sends no further request.
C28_PollingStopsOnTerminalStatus ==
  \A t \in TaskIds :
    client[t].at = "request" =>
      \/ client[t].status = None
      \/ client[t].status.status \notin {"completed", "partial", "error"}

-----------------------------------------------------------------------------
(* The run in which every stage succeeds *)

\* text extracted, facts parsed from the reply, summarize and analyze_project
\* returned, the research ran without a failure, the store never failed
EveryStageSucceeded(t) ==
  /\ TextExtracted(t)
  /\ ~Saw(t, "extract_raised") /\ ~Saw(t, "response_unparsable")
  /\ Saw(t, "summarize_returned")
  /\ Saw(t, "analyze_returned")
  /\ ~Saw(t, "fetcher_init_raised")
  /\ ~Saw(t, "developer_lookup_failed") /\ ~Saw(t, "offtaker_lookup_failed")
  /\ StoreWorked(t)

\* C29: when text extraction, fact extraction, summarization, rule
\* evaluation and entity research all succeed, process_document finalizes the
\* record as Completed, reports the task completed, and stores the
\* summarizer's non-empty output: a successful summarize is never turned into
\* a summary-failure note.
C29_AllStagesSucceedIsCompleted ==
  \A t \in TaskIds :
    (Saw(t, "published") /\ EveryStageSucceeded(t)) =>
      /\ Row(t).processing_status = Completed
      /\ TASKS[t].status = "completed"
      /\ ~Empty(Row(t).summary)
      /\ ~Contains(Row(t).processing_notes.v, SummaryFailureLine)

====
